---- MODULE Spec2Model ----
(***************************************************************************)
(* Model of the Google Meet navigation state machine of meeting_agent      *)
(* (src/meeting_agent/gm_manager.py) together with the session boundary    *)
(* of src/worker_main.py and the leave signal of                           *)
(* src/meeting_agent/live_assistant.py.                                    *)
(*                                                                         *)
(* Every state class is a coroutine `enter`; set_state(new) assigns        *)
(* controller.current_state and awaits new.enter() on the caller's stack.  *)
(* One action models one execution of an enter() body, from its            *)
(* classification up to the nested set_state call it makes.  The frames    *)
(* that are suspended in a nested set_state and still have code to run     *)
(* when it returns are kept in `frames`: only LandingPageState and         *)
(* JoinCurrentMeetingState have such a tail; every other enter() returns   *)
(* as soon as its nested set_state returns.                                *)
(***************************************************************************)
EXTENDS Integers, Sequences, FiniteSets, TLC

(***************************************************************************)
(* Program constants                                                       *)
(***************************************************************************)
\* MeetControllerBase.__init__(restart_tries=7)
RESTART_TRIES == 7
\* MeetControllerBase.__init__(wait_approval_tries=7)
WAIT_APPROVAL_TRIES == 7
\* GoogleLoginState.MAX_RETRIES (class attribute)
GoogleLoginState_MAX_RETRIES == 4
\* JoinCurrentMeetingState.MAX_RETRIES
JoinCurrentMeetingState_MAX_RETRIES == 5
\* InMeeting.MAX_RETRIES
InMeeting_MAX_RETRIES == 3
\* MeetingSubMachineInMeeting.enter: alone_in_the_call_timer >= 120
ALONE_LIMIT == 120
\* MeetingSubMachineInMeeting.enter: getting_ready_error_count > 2
GETTING_READY_TOLERANCE == 2

(***************************************************************************)
(* Bounds of the model                                                     *)
(***************************************************************************)
\* the ghost counter of consecutive self re-entries saturates here
MaxSelfRun == 9
\* wait_approval_tries is only ever compared with 0; values more than this
\* far below 0 are folded into one
MaxWaitDebt == 1
\* the ghost counter of LandingPage/JoinCurrentMeeting entries saturates here
MaxEntries == 9

Min(a, b) == IF a < b THEN a ELSE b
Max(a, b) == IF a > b THEN a ELSE b

(***************************************************************************)
(* schemas.py                                                              *)
(***************************************************************************)
GoogleMeetState ==
    { "google_login_page", "google_relogin_page",
      "google_chrome_workspace_popup", "google_sign_in_to_chrome",
      "google_meet_initial_page", "google_meet_meeting_connection_page",
      "google_meet_meeting_connection_page_getting_ready",
      "google_meet_awaiting_approval_page", "google_meet_meeting_page",
      "google_meet_call_finishing_page", "google_meet_rejoin_page",
      "google_meet_loading_call", "google_meet_unknown_page",
      "google_meet_landing_page", "google_meet_cant_join_this_call",
      "google_meet_allow_microphone" }

\* the PageControls labels the navigation states look for, and one they
\* do not look for
PageControls ==
    { "new_meeting_button", "start_an_instant_meeting", "join_meeting",
      "use_microphone_and_camera", "allow_while_visiting_the_site",
      "cancel", "mute_audio" }

\* StatusEnum values sent by the agent
StatusEnum ==
    { "new_meeting_starting", "connecting_to_the_meeting", "meeting_ready",
      "error" }

\* ControlElem(label, box_2d), box_2d = [y_min, x_min, y_max, x_max]
ControlElem(label, box_2d) == [ label |-> label, box_2d |-> box_2d ]

\* two boxes with different centres
Box1 == << 100, 200, 140, 301 >>
Box2 == << 300, 40, 331, 90 >>

\* element lists of a classification: none, one control, or a control
\* that comes twice after an unrelated one
ElementLists ==
    { <<>> }
    \cup { << ControlElem(l, Box1) >> : l \in PageControls }
    \cup { << ControlElem("mute_audio", Box1), ControlElem(l, Box2),
              ControlElem(l, Box1) >> : l \in PageControls \ { "mute_audio" } }

\* the page states in which some enter() reads the elements; for any other
\* state the classification is drawn without elements
PagesWithControls ==
    { "google_meet_initial_page", "google_meet_meeting_connection_page",
      "google_meet_allow_microphone", "google_chrome_workspace_popup",
      "google_sign_in_to_chrome" }

ElementsOn(st) == IF st \in PagesWithControls THEN ElementLists ELSE { <<>> }

\* `for elem in elements: if elem.label in labels: ... break` finds one
HasLabel(elements, labels) ==
    \E i \in 1..Len(elements) : elements[i].label \in labels

(***************************************************************************)
(* gm_helper.py: ControlFinder.  Labels are strings; a confidence is kept  *)
(* in hundredths of a percent (the code rounds to two decimals), so        *)
(* 100.0 is 10000 and 75.86 is 7586.                                       *)
(***************************************************************************)
\* `fallback in elem.label`: substring test
IsSubstring(t, s) ==
    \E i \in 1..(Len(s) - Len(t) + 1) : SubSeq(s, i, i + Len(t) - 1) = t

\* positions of the separators that base_label.split("_") splits at
Underscores(s) == { i \in 1..Len(s) : SubSeq(s, i, i) = "_" }

\* variant: range(len(parts) - 1, 0, -1), down to the first part alone
_generate_fallbacksToOne(base_label) ==
    LET us == Underscores(base_label)
        n == Cardinality(us) + 1
        Nth(k) == CHOOSE q \in us : Cardinality({ r \in us : r <= q }) = k
    IN  [ j \in 1..Max(n - 1, 0) |-> SubSeq(base_label, 1, Nth(n - j) - 1) ]

\* ["_".join(parts[:i]) for i in range(len(parts) - 1, 1, -1)]: the prefix
\* made of the first i parts ends right before the i-th separator
_generate_fallbacks(base_label) ==
    LET us == Underscores(base_label)
        n == Cardinality(us) + 1
        Nth(k) == CHOOSE q \in us : Cardinality({ r \in us : r <= q }) = k
    IN  [ j \in 1..Max(n - 2, 0) |-> SubSeq(base_label, 1, Nth(n - j) - 1) ]

\* variant: the third decimal is cut off
Round2Truncated(n, d) == (n * 10000) \div d

\* round(n / d * 100.0, 2) in hundredths, ties to the even neighbour
Round2(n, d) ==
    LET q == (n * 10000) \div d
        r == (n * 10000) % d
    IN  IF 2 * r < d THEN q
        ELSE IF 2 * r > d THEN q + 1
        ELSE IF q % 2 = 0 THEN q ELSE q + 1

\* `for elem in self.elements: if ...: return`: the first of the indices
\* at which the condition holds, 0 if there is none
FirstIndex(indices) ==
    IF indices = {} THEN 0
    ELSE CHOOSE i \in indices : \A k \in indices : i <= k

\* variant: a label counts when it contains one of the labels
LabelledBySubstring(elements, labels) ==
    { i \in 1..Len(elements) :
        \E l \in labels : IsSubstring(l, elements[i].label) }

\* the indices of the elements whose label is one of the labels
Labelled(elements, labels) ==
    { i \in 1..Len(elements) : elements[i].label \in labels }

\* variant: the label has to start with the fallback
ContainingAsPrefix(elements, fallback) ==
    { i \in 1..Len(elements) :
        /\ Len(fallback) <= Len(elements[i].label)
        /\ SubSeq(elements[i].label, 1, Len(fallback)) = fallback }

\* the indices of the elements whose label contains the fallback
Containing(elements, fallback) ==
    { i \in 1..Len(elements) : IsSubstring(fallback, elements[i].label) }

\* find_element(base_label, aliases): the element is given by its index in
\* the list, 0 stands for None
find_element(elements, base_label, aliases) ==
    LET high_priority_labels == { base_label } \cup aliases
        high == Labelled(elements, high_priority_labels)
        fallback_labels == _generate_fallbacks(base_label)
        \* the fallbacks that some element contains; the outer loop takes
        \* the first of them
        hits == { j \in 1..Len(fallback_labels) :
                    Containing(elements, fallback_labels[j]) # {} }
    IN  IF high # {}
        THEN [ element |-> FirstIndex(high), confidence |-> 10000 ]
        ELSE IF hits # {}
        THEN LET fallback == fallback_labels[FirstIndex(hits)]
             IN  [ element |-> FirstIndex(Containing(elements, fallback)),
                   confidence |-> Round2(Len(fallback), Len(base_label)) ]
        ELSE [ element |-> 0, confidence |-> 0 ]

(***************************************************************************)
(* gm_helper.py: ScreenActions.  Every call is one entry of a call log:    *)
(* op, its target (the icon searched for, "" for a click at coordinates),   *)
(* the coordinates (the shift for click_icon_with_shift) and whether the   *)
(* pointer was clicked.                                                    *)
(***************************************************************************)
\* int(v) of v = lo + (hi - lo) / 2: truncation toward zero of (lo + hi) / 2
IntHalf(lo, hi) ==
    IF lo + hi >= 0 THEN (lo + hi) \div 2 ELSE 0 - ((0 - (lo + hi)) \div 2)

\* ScreenActions.click(control_elem) for a ControlElem: box_2d is
\* [y_min, x_min, y_max, x_max]
click(control_elem) ==
    [ op |-> "click", target |-> "",
      x |-> IntHalf(control_elem.box_2d[2], control_elem.box_2d[4]),
      y |-> IntHalf(control_elem.box_2d[1], control_elem.box_2d[3]),
      clicked |-> TRUE ]

\* ScreenActions.click((x, y))
click_at(x, y) ==
    [ op |-> "click", target |-> "", x |-> x, y |-> y, clicked |-> TRUE ]

\* the template images the in-call monitor searches the screen for
Icons ==
    { "admit_view.png", "admit_all.png", "deny_all_admit_all.png",
      "cancel_admit.png", "view.png", "leave_call.png" }

\* A screen as pyautogui sees it: `shown` is the set of icons that are
\* located on it; `locate_none` tells what locateCenterOnScreen does for an
\* icon that is not there: return None (TRUE) or raise (FALSE), which
\* depends on the installed pyautogui/pyscreeze.
Screens == [ shown : SUBSET Icons, locate_none : BOOLEAN ]

\* click_icon(icon_name): pyautogui.click(path) raises when the image is
\* not located; result True iff the click was made
click_icon(icon_name, screen) ==
    [ op |-> "click_icon", target |-> icon_name, x |-> 0, y |-> 0,
      clicked |-> icon_name \in screen.shown ]

click_icon_result(icon_name, screen) == icon_name \in screen.shown

\* click_icon_with_shift(icon_name, shift_x): clicks only `if icon_location`
click_icon_with_shift(icon_name, shift_x, screen) ==
    [ op |-> "click_icon_with_shift", target |-> icon_name, x |-> shift_x,
      y |-> 0, clicked |-> icon_name \in screen.shown ]

\* its result: True unless locateCenterOnScreen raised
click_icon_with_shift_result(icon_name, screen) ==
    icon_name \in screen.shown \/ screen.locate_none

\* variant: the click goes to the last element with one of the labels
ClickLastWithLabel(elements, labels) ==
    LET i == CHOOSE k \in 1..Len(elements) :
                 /\ elements[k].label \in labels
                 /\ \A m \in (k + 1)..Len(elements) :
                        elements[m].label \notin labels
    IN  << click(elements[i]) >>

\* `for elem in elements: if elem.label in labels: ScreenActions.click(elem)
\* ... break`: the calls made when there is such an element
ClickFirstWithLabel(elements, labels) ==
    << click(elements[FirstIndex(Labelled(elements, labels))]) >>

(***************************************************************************)
(* gm_manager.py: the helpers of MeetingSubMachineInMeeting, as functions  *)
(* of the classified elements and of the screen.  Each returns the calls   *)
(* it made, in order; a lookup is logged with the label looked up, the     *)
(* confidence (x) and the index of the element found (y).                  *)
(***************************************************************************)
lookup(base_label, found) ==
    [ op |-> "find_element", target |-> base_label, x |-> found.confidence,
      y |-> found.element, clicked |-> FALSE ]

\* do_admit_all_sequence()
do_admit_all_sequence(screen) ==
    LET first == << click_icon("admit_all.png", screen) >>
        second == IF click_icon_result("admit_all.png", screen) THEN << >>
                  ELSE << click_icon_with_shift("deny_all_admit_all.png", 45,
                                                screen) >>
        result == IF click_icon_result("admit_all.png", screen) THEN TRUE
                  ELSE click_icon_with_shift_result("deny_all_admit_all.png",
                                                    screen)
    IN  IF ~result
        THEN [ calls |-> first \o second, result |-> FALSE ]
        ELSE [ calls |-> first \o second
                         \o << click_icon_with_shift("cancel_admit.png", 40,
                                                     screen) >>,
               result |-> click_icon_with_shift_result("cancel_admit.png",
                                                       screen) ]

\* admit_from_popup()
admit_from_popup(screen) ==
    << click_icon("view.png", screen) >>
    \o (IF click_icon_result("view.png", screen)
        THEN do_admit_all_sequence(screen).calls ELSE << >>)

ViewParticipantsAliases ==
    { "meet_call_controls_view_all_participants",
      "meet_callcontrol_viewparticipants_button",
      \* two adjacent literals without a comma: one string
      "meet_callcontrol_view_participants_buttonsomeone_wants_to_join_this_call_view",
      "call_control_view_button",
      "someone_wants_to_join_this_call_view_button",
      "meet_incoming_call_view_button",
      "call_control_someone_wants_to_join_this_call_view_button",
      "meet_someone_wants_to_join_this_call_view_button" }

\* the thresholds of admit_participant and leave_call
AdmitNotificationConfident(confidence) == confidence >= 8000
ViewParticipantsConfident(confidence) == confidence >= 6000
PersonAdmitConfident(confidence) == confidence > 6600
\* variant: the admit-all panel control needs the confidence of the
\* admit notification
AdmitAllConfidentAsNotification(confidence) == confidence >= 8000
AdmitAllConfident(confidence) == confidence > 7500
\* variant: the leave control is accepted from 60 on
LeaveConfidentLow(confidence) == confidence >= 6000
LeaveConfident(confidence) == confidence >= 7000

\* admit_participant(finder): result is "True", "False" or "None"
admit_participant(elements, screen) ==
    LET a == << click_icon_with_shift("admit_view.png", 0 - 15, screen) >>
        fb == find_element(elements,
                           "someone_wants_to_join_this_call_admit_button", {})
        b == << lookup("someone_wants_to_join_this_call_admit_button", fb) >>
             \o (IF fb.element # 0 /\ AdmitNotificationConfident(fb.confidence)
                 THEN << click(elements[fb.element]) >> ELSE << >>)
        fc == find_element(elements, "meet_callcontrol_viewparticipantsbutton",
                           ViewParticipantsAliases)
        c == << lookup("meet_callcontrol_viewparticipantsbutton", fc) >>
        seq == do_admit_all_sequence(screen)
        fd == find_element(elements, "people_admit_button", {})
        d == << lookup("people_admit_button", fd) >>
             \o (IF fd.element # 0 /\ PersonAdmitConfident(fd.confidence)
                 THEN << click(elements[fd.element]) >> ELSE << >>)
        fe == find_element(elements, "people_popup_admit_all_button",
                           { "people_admit_all_button", "people_admit_all" })
        e == << lookup("people_popup_admit_all_button", fe) >>
        eClick == << click(elements[fe.element]),
                     click_icon_with_shift("cancel_admit.png", 40, screen) >>
        ff == find_element(elements, "admit_all_admit_button", {})
        f == << lookup("admit_all_admit_button", ff) >>
             \o (IF ff.confidence = 10000
                 THEN << click(elements[ff.element]) >> ELSE << >>)
             \o admit_from_popup(screen)
    IN  IF click_icon_with_shift_result("admit_view.png", screen)
        THEN [ calls |-> a, result |-> "True" ]
        ELSE IF fc.element # 0 /\ ViewParticipantsConfident(fc.confidence)
        THEN [ calls |-> a \o b \o c \o << click(elements[fc.element]) >>
                         \o seq.calls,
               result |-> IF seq.result THEN "True" ELSE "False" ]
        ELSE IF /\ fe.element # 0 /\ AdmitAllConfident(fe.confidence)
                /\ click_icon_with_shift_result("cancel_admit.png", screen)
        THEN [ calls |-> a \o b \o c \o d \o e \o eClick, result |-> "True" ]
        ELSE [ calls |-> a \o b \o c \o d \o e
                         \o (IF fe.element # 0 /\ AdmitAllConfident(fe.confidence)
                             THEN eClick ELSE << >>)
                         \o f,
               result |-> "None" ]

\* leave_call(finder)
leave_call(elements, screen) ==
    LET found == find_element(elements, "meet_call_control_end_call_button",
                              { "meet_leave_call_button",
                                "meet_call_control_leave_call_button" })
    IN  << lookup("meet_call_control_end_call_button", found) >>
        \o (IF LeaveConfident(found.confidence)
            THEN << click(elements[found.element]) >> ELSE << >>)
        \o << click_icon("leave_call.png", screen) >>

\* the page states the in-call monitor is polled with
MonitorPageStates ==
    { "google_meet_meeting_page",
      "google_meet_meeting_connection_page_getting_ready",
      "google_meet_call_finishing_page", "google_meet_unknown_page" }

VARIABLES
    gm_link,                   \* TRUE iff settings.gm_link is set
    pc,                        \* position of the control flow
    current_state,             \* controller.current_state (class name)
    retry,                     \* current_state.retry
    frames,                    \* suspended enter() frames that have a tail
    restart_tries,             \* controller.restart_tries
    wait_approval_tries,       \* controller.wait_approval_tries
    error_msg,                 \* controller.error_msg
    stopped,                   \* controller.stopped
    driver_quits,              \* number of driver.quit() calls
    notified,                  \* statuses posted to the callback url
    la_tasks,                  \* AssistantLive.run tasks created
    la_pending,                \* created tasks that have not run yet
    la_running,                \* controller.live_assistant.running
    leave_call_event,          \* controller.live_assistant.leave_call_event
    sub_current_state,         \* sub_controller.current_state
    sub_error_msg,             \* sub_controller.error_msg
    sub_leave_call_event,      \* sub_controller.live_assistant.leave_call_event
    sub_stop_event,            \* sub_controller.live_assistant.stop_event
    alone_in_the_call_timer,   \* local of MeetingSubMachineInMeeting.enter
    getting_ready_error_count, \* local of MeetingSubMachineInMeeting.enter
    \* observation variables (not program state)
    selfRun,                   \* consecutive entries of the same state class
    lj_entries,                \* entries to LandingPage/JoinCurrentMeeting
    leave_calls,               \* executions of leave_call
    monitor_exit,              \* why the monitor loop ended
    only_alone,                \* every poll so far was "alone in call"
    alone_interrupted,         \* a not-alone active-call poll after an alone one
    stop_entries,              \* executions of StopState.enter
    stop_notified,             \* StopState.enter called the notifier
    exhausted,                 \* the retry budget that ran out last
    screen_calls,              \* finder/ScreenActions calls of the last step
    seen,                      \* the classification a scenario is about
    \* a helper of the in-call monitor applied on its own
    fn_call,                   \* the helper and its arguments
    fn_result,                 \* what it returned ("pending" before the call)
    \* connection_manager: the DockerManager singleton and its threads
    active_containers,         \* DockerManager.active_containers
    containers_settings,       \* is_launched of each ContainerSettings
    occupied_ports,            \* DockerManager.occupied_ports
    log_streaming_threads,     \* keys of DockerManager.log_streaming_threads
    containers,                \* the containers of the Docker daemon
    threads,                   \* position and locals of each thread
    launches                   \* launch_container calls made so far

ctl == << gm_link, pc, current_state, retry, frames, restart_tries,
          wait_approval_tries, error_msg, stopped, driver_quits, notified >>
la == << la_tasks, la_pending, la_running >>
sub == << sub_current_state, sub_error_msg, sub_leave_call_event,
          sub_stop_event, alone_in_the_call_timer,
          getting_ready_error_count >>
obs == << selfRun, lj_entries, leave_calls, monitor_exit, only_alone,
          alone_interrupted, stop_entries, stop_notified, exhausted >>
fn == << fn_call, fn_result >>
dm == << active_containers, containers_settings, occupied_ports,
         log_streaming_threads, containers, threads, launches >>
vars == << ctl, la, leave_call_event, sub, obs, screen_calls, seen, fn, dm >>

\* variant: every session is a host session
EveryoneHosts == TRUE

\* worker_main.main: a host session iff no meeting link is configured
meeting_host == ~gm_link

StateNames ==
    { "LandingPageState", "JoinCurrentMeetingState", "GoogleLoginState",
      "CreateNewMeetingState", "JoinCurrentMeetingAwaitApprovalState",
      "PermitMicrophone", "InMeeting", "StopState" }

\* `seen` when the last step classified no page that LandingPageState or
\* PermitMicrophone watch for
NoPage == [ state |-> "none", logged_in |-> FALSE, elements |-> << >> ]

\* no helper call: the controller runs
NoCall == [ fn |-> "none", elements |-> << >>,
            screen |-> [ shown |-> {}, locate_none |-> FALSE ] ]

\* settings.google_accounts: the e-mails of the accounts, in their order
google_accounts == << "a1@x", "a2@x" >>

\* the threads of the connection manager: the executor threads that run the
\* launch_google_meet tool, the event loop (stop_session) and the monitor
LaunchThreads == { "executor1", "executor2" }
CleanupThreads == { "main", "monitor" }

\* a thread that is in no call of the DockerManager (the monitor: asleep)
IdleThread ==
    [ pc |-> "idle", user_id |-> "None", container_settings |-> 0,
      host_port |-> 0, container |-> 0, container_arg |-> FALSE,
      ports |-> {}, user_ids |-> {} ]

\* the user ids of the websocket connections
UserIds == { "u1", "u2" }

\* DockerManager.__init__: one ContainerSettings per account, nothing
\* launched, no port taken; key u of active_containers maps to the index
\* of its container in containers, 0 when the key is absent
DockerManagerInit ==
    /\ active_containers = [ u \in UserIds |-> 0 ]
    /\ containers_settings =
          [ i \in 1..Len(google_accounts) |->
               [ google_email |-> google_accounts[i], is_launched |-> FALSE ] ]
    /\ occupied_ports = {}
    /\ log_streaming_threads = {}
    /\ containers = << >>
    /\ threads = [ t \in LaunchThreads \cup CleanupThreads |-> IdleThread ]
    /\ launches = 0

\* MeetControllerBase.__init__, AssistantLive.__init__, and the observation
\* variables before anything has happened
ControllerInit ==
    /\ current_state = "None"
    /\ retry = 0
    /\ frames = << >>
    /\ restart_tries = RESTART_TRIES
    /\ wait_approval_tries = WAIT_APPROVAL_TRIES
    /\ error_msg = "None"
    /\ stopped = FALSE
    /\ driver_quits = 0
    /\ notified = << >>
    /\ la_tasks = 0
    /\ la_pending = 0
    /\ la_running = FALSE
    /\ leave_call_event = FALSE
    /\ sub_current_state = "None"
    /\ sub_error_msg = "None"
    /\ sub_leave_call_event = FALSE
    /\ sub_stop_event = FALSE
    /\ alone_in_the_call_timer = 0
    /\ getting_ready_error_count = 0
    /\ selfRun = 0
    /\ lj_entries = 0
    /\ leave_calls = 0
    /\ monitor_exit = "none"
    /\ only_alone = TRUE
    /\ alone_interrupted = FALSE
    /\ stop_entries = 0
    /\ stop_notified = FALSE
    /\ exhausted = "none"
    /\ screen_calls = << >>
    /\ seen = NoPage

Init ==
    /\ gm_link \in BOOLEAN
    /\ pc = "run"
    /\ ControllerInit
    /\ fn_call = NoCall
    /\ fn_result = "none"
    /\ DockerManagerInit

(***************************************************************************)
(* MeetControllerBase                                                      *)
(***************************************************************************)
\* set_state(new_state) with new_state = cls(controller, retry=r): assigns
\* current_state; the nested enter() is the next action.
SetState(cls, r) ==
    /\ current_state' = cls
    /\ retry' = r
    /\ pc' = "enter"
    /\ selfRun' = IF cls = current_state THEN Min(selfRun + 1, MaxSelfRun)
                  ELSE 0
    /\ lj_entries' = IF cls \in {"LandingPageState", "JoinCurrentMeetingState"}
                     THEN Min(lj_entries + 1, MaxEntries) ELSE lj_entries

\* the enter() body ends without a transition: control goes back to the
\* callers
ReturnToCaller ==
    /\ pc' = "return"
    /\ UNCHANGED << current_state, retry, selfRun, lj_entries >>

\* variant: the link is sent with every status
MeetingProgressLinked(status, link) == [ status |-> status, gm_link |-> link ]

\* MeetingProgress(user_id, status, gm_link=self.gm_link if status ==
\* StatusEnum.meeting_ready else None); link is the controller's gm_link
MeetingProgress(status, link) ==
    [ status |-> status,
      gm_link |-> IF status = "meeting_ready" THEN link ELSE "None" ]

\* controller.gm_link of the MeetConnectionController: settings.gm_link
ConnectionLink == IF gm_link THEN "settings.gm_link" ELSE "None"

\* notify_management_back(status) of a controller whose gm_link is link:
\* one post attempt, failures are swallowed
Notify(status, link) ==
    notified' = Append(notified, MeetingProgress(status, link))

\* variant: a created task never gets to set the flag
AssistantNeverRuns(pending, running) == running

\* a suspension point of the controller: created assistant tasks get to run
\* (AssistantLive.run sets running first)
AssistantStarted(pending, running) == running \/ pending > 0


\* the state of the assistant task after the first await of an enter() body
LaAtAwait == AssistantStarted(la_pending, la_running)

\* an enter() body that awaits the classifier and creates no task
LaAwaitOnly ==
    /\ la_running' = LaAtAwait
    /\ la_pending' = 0
    /\ la_tasks' = la_tasks

(***************************************************************************)
(* MeetConnectionController.run                                            *)
(***************************************************************************)
Run ==
    /\ pc = "run"
    /\ seen' = NoPage
    /\ Notify(IF gm_link THEN "connecting_to_the_meeting"
              ELSE "new_meeting_starting", ConnectionLink)
    /\ SetState(IF gm_link THEN "JoinCurrentMeetingState"
                ELSE "LandingPageState", 0)
    /\ screen_calls' = << >>
    /\ UNCHANGED << gm_link, frames, restart_tries, wait_approval_tries,
                    error_msg, stopped, driver_quits, la, leave_call_event,
                    sub, leave_calls, monitor_exit, only_alone,
                    alone_interrupted, stop_entries, stop_notified, exhausted,
                    fn >>
    /\ UNCHANGED dm

(***************************************************************************)
(* LandingPageState.enter                                                  *)
(***************************************************************************)
\* variant: the budget check fires one entry late
RestartExhaustedLate(tries) == tries < 0

\* `if self.controller.restart_tries == 0` after the decrement
RestartExhausted(tries) == tries = 0

\* observation: the classification of scenario A, the initial dashboard
\* of a logged-in account with a 'new_meeting_button' element
WatchedByLanding(st, logged_in, elements) ==
    /\ st = "google_meet_initial_page"
    /\ logged_in
    /\ \E i \in 1..Len(elements) : elements[i].label = "new_meeting_button"

LandingPageStateEnter ==
    /\ pc = "enter"
    /\ current_state = "LandingPageState"
    /\ \E st \in GoogleMeetState, logged_in \in BOOLEAN :
       \E elements \in ElementsOn(st) :
        LET tries == restart_tries - 1
            onInitial == st = "google_meet_initial_page" /\ logged_in
            create == ~RestartExhausted(tries) /\ onInitial /\ ~LaAtAwait
        IN  /\ restart_tries' = tries
            /\ frames' = Append(frames, "LandingPageState")
            /\ exhausted' = IF RestartExhausted(tries) THEN "restart_tries"
                            ELSE exhausted
            /\ la_running' = LaAtAwait
            /\ la_pending' = IF create THEN 1 ELSE 0
            /\ la_tasks' = IF create THEN la_tasks + 1 ELSE la_tasks
            /\ seen' = IF WatchedByLanding(st, logged_in, elements)
                        THEN [ state |-> st, logged_in |-> logged_in,
                               elements |-> elements ]
                        ELSE NoPage
            /\ screen_calls' =
                  IF /\ ~RestartExhausted(tries) /\ onInitial /\ ~gm_link
                     /\ HasLabel(elements, {"new_meeting_button"})
                  THEN ClickFirstWithLabel(elements, {"new_meeting_button"})
                  ELSE << >>
            /\ IF RestartExhausted(tries)
               THEN /\ error_msg' = "Too many retries in LandingPageState"
                    /\ SetState("StopState", 0)
               ELSE /\ error_msg' = error_msg
                    /\ IF onInitial
                       THEN IF gm_link
                            THEN SetState("JoinCurrentMeetingState", 0)
                            ELSE IF HasLabel(elements, {"new_meeting_button"})
                                 THEN SetState("CreateNewMeetingState", 0)
                                 ELSE SetState("LandingPageState", 0)
                       ELSE IF ~logged_in
                            THEN SetState("GoogleLoginState", 0)
                            ELSE SetState("LandingPageState", 0)
    /\ UNCHANGED << gm_link, wait_approval_tries, stopped, driver_quits,
                    notified, leave_call_event, sub, leave_calls,
                    monitor_exit, only_alone, alone_interrupted,
                    stop_entries, stop_notified, fn >>
    /\ UNCHANGED dm

(***************************************************************************)
(* JoinCurrentMeetingState.enter                                           *)
(***************************************************************************)
JoinCurrentMeetingStateEnter ==
    /\ pc = "enter"
    /\ seen' = NoPage
    /\ current_state = "JoinCurrentMeetingState"
    /\ \E st \in GoogleMeetState, logged_in \in BOOLEAN :
       \E elements \in ElementsOn(st) :
        LET tries == restart_tries - 1
        IN  /\ restart_tries' = tries
            /\ frames' = Append(frames, "JoinCurrentMeetingState")
            \* create_task before the first await, then asyncio.sleep(1)
            /\ la_tasks' = IF ~la_running THEN la_tasks + 1 ELSE la_tasks
            /\ la_pending' = 0
            /\ la_running' = TRUE
            /\ screen_calls' =
                  IF /\ ~RestartExhausted(tries)
                     /\ st = "google_meet_meeting_connection_page" /\ logged_in
                     /\ HasLabel(elements, {"join_meeting"})
                  THEN ClickFirstWithLabel(elements, {"join_meeting"})
                  ELSE << >>
            /\ exhausted' =
                  IF RestartExhausted(tries) THEN "restart_tries"
                  ELSE IF /\ st = "google_meet_meeting_connection_page_getting_ready"
                          /\ logged_in
                          /\ ~(retry < JoinCurrentMeetingState_MAX_RETRIES)
                       THEN "join_retry" ELSE exhausted
            /\ IF RestartExhausted(tries)
               THEN /\ error_msg' = "Too many retries in JoinCurrentMeetingState"
                    /\ SetState("StopState", 0)
               ELSE /\ error_msg' = error_msg
                    /\ IF st = "google_meet_meeting_connection_page" /\ logged_in
                       THEN IF HasLabel(elements, {"join_meeting"})
                            THEN SetState("JoinCurrentMeetingAwaitApprovalState", 0)
                            ELSE ReturnToCaller
                       ELSE IF st = "google_meet_allow_microphone"
                       THEN SetState("PermitMicrophone", retry)
                       ELSE IF st = "google_meet_meeting_connection_page_getting_ready"
                               /\ logged_in
                       THEN IF retry < JoinCurrentMeetingState_MAX_RETRIES
                            THEN SetState("JoinCurrentMeetingState", retry + 1)
                            ELSE SetState("LandingPageState", 0)
                       ELSE IF ~logged_in
                       THEN SetState("GoogleLoginState", 0)
                       ELSE SetState("JoinCurrentMeetingState", 0)
    /\ UNCHANGED << gm_link, wait_approval_tries, stopped, driver_quits,
                    notified, leave_call_event, sub, leave_calls,
                    monitor_exit, only_alone, alone_interrupted,
                    stop_entries, stop_notified, fn >>
    /\ UNCHANGED dm

(***************************************************************************)
(* GoogleLoginState.enter                                                  *)
(***************************************************************************)
\* self.MAX_RETRIES as read by enter(): every GoogleLoginState is a new
\* instance, `self.MAX_RETRIES -= 1` stores the decremented value on the
\* instance that is then abandoned, so the read finds the class attribute
InstanceMaxRetries == GoogleLoginState_MAX_RETRIES

\* variant: a host goes on to create the meeting right after the login
AfterLoginCreates ==
    IF gm_link THEN "JoinCurrentMeetingState" ELSE "CreateNewMeetingState"

\* the state entered after a successful login / dismissed popup
AfterLogin == IF gm_link THEN "JoinCurrentMeetingState" ELSE "LandingPageState"

GoogleLoginStateEnter ==
    /\ pc = "enter"
    /\ seen' = NoPage
    /\ current_state = "GoogleLoginState"
    /\ \E st \in GoogleMeetState, logged_in \in BOOLEAN :
       \E elements \in ElementsOn(st) :
        /\ screen_calls' =
              IF /\ st \in {"google_chrome_workspace_popup",
                            "google_sign_in_to_chrome"}
                 /\ HasLabel(elements, {"cancel"})
              THEN ClickFirstWithLabel(elements, {"cancel"})
              ELSE << >>
        /\ exhausted' =
              IF /\ st \notin {"google_chrome_workspace_popup",
                               "google_sign_in_to_chrome"}
                 /\ InstanceMaxRetries = 0
              THEN "login_retries" ELSE exhausted
        /\
         IF st = "google_chrome_workspace_popup"
         THEN IF HasLabel(elements, {"cancel"})
              THEN error_msg' = error_msg /\ SetState(AfterLogin, 0)
              ELSE /\ error_msg' = "Unhandled state google_chrome_workspace_popup"
                   /\ SetState("StopState", 0)
         ELSE IF st = "google_sign_in_to_chrome"
         THEN IF HasLabel(elements, {"cancel"})
              THEN error_msg' = error_msg /\ SetState(AfterLogin, 0)
              ELSE /\ error_msg' = "Unhandled state google_sign_in_to_chrome"
                   /\ SetState("StopState", 0)
         ELSE IF ~logged_in
         THEN IF InstanceMaxRetries # 0
              THEN error_msg' = error_msg /\ SetState("GoogleLoginState", 0)
              ELSE error_msg' = "Can't login" /\ SetState("StopState", 0)
         ELSE IF InstanceMaxRetries # 0
              THEN error_msg' = error_msg /\ SetState(AfterLogin, 0)
              ELSE /\ error_msg' = "Something went very wrong"
                   /\ SetState("StopState", 0)
    /\ LaAwaitOnly
    /\ UNCHANGED << gm_link, frames, restart_tries, wait_approval_tries,
                    stopped, driver_quits, notified, leave_call_event, sub,
                    leave_calls, monitor_exit, only_alone, alone_interrupted,
                    stop_entries, stop_notified, fn >>
    /\ UNCHANGED dm

(***************************************************************************)
(* JoinCurrentMeetingAwaitApprovalState.enter                              *)
(***************************************************************************)
\* `wait_approval_tries == 0` only logs a warning; the branches below run
\* whatever the counter is
JoinCurrentMeetingAwaitApprovalStateEnter ==
    /\ pc = "enter"
    /\ seen' = NoPage
    /\ current_state = "JoinCurrentMeetingAwaitApprovalState"
    /\ \E st \in GoogleMeetState :
        IF st \in {"google_meet_awaiting_approval_page",
                   "google_meet_meeting_connection_page"}
        THEN /\ wait_approval_tries' = Max(wait_approval_tries - 1, 0 - MaxWaitDebt)
             /\ SetState("JoinCurrentMeetingAwaitApprovalState", 0)
        ELSE /\ wait_approval_tries' = wait_approval_tries
             /\ IF st = "google_meet_allow_microphone"
                THEN SetState("PermitMicrophone", retry)
                ELSE IF st \in {"google_meet_loading_call",
                                "google_meet_meeting_page"}
                THEN SetState("InMeeting", 0)
                ELSE ReturnToCaller
    /\ LaAwaitOnly
    /\ screen_calls' = << >>
    /\ UNCHANGED << gm_link, frames, restart_tries, error_msg, stopped,
                    driver_quits, notified, leave_call_event, sub,
                    leave_calls, monitor_exit, only_alone, alone_interrupted,
                    stop_entries, stop_notified, exhausted, fn >>
    /\ UNCHANGED dm

(***************************************************************************)
(* CreateNewMeetingState.enter                                             *)
(***************************************************************************)
CreateNewMeetingStateEnter ==
    /\ pc = "enter"
    /\ seen' = NoPage
    /\ current_state = "CreateNewMeetingState"
    /\ \E st \in GoogleMeetState, logged_in \in BOOLEAN :
       \E elements \in ElementsOn(st) :
        IF st = "google_meet_initial_page" /\ logged_in
        THEN IF HasLabel(elements, {"start_an_instant_meeting"})
             THEN /\ screen_calls' =
                       ClickFirstWithLabel(elements,
                                           {"start_an_instant_meeting"})
                  /\ SetState("InMeeting", 0)
             ELSE /\ screen_calls' = << >>
                  /\ SetState("LandingPageState", 0)
        ELSE /\ screen_calls' = << >>
             /\ ReturnToCaller
    /\ LaAwaitOnly
    /\ UNCHANGED << gm_link, frames, restart_tries, wait_approval_tries,
                    error_msg, stopped, driver_quits, notified,
                    leave_call_event, sub, leave_calls, monitor_exit,
                    only_alone, alone_interrupted, stop_entries,
                    stop_notified, exhausted, fn >>
    /\ UNCHANGED dm

(***************************************************************************)
(* PermitMicrophone.enter                                                  *)
(***************************************************************************)
\* variant: only the first of the two labels is looked for
PermitLabelsCameraOnly == { "use_microphone_and_camera" }

\* the labels PermitMicrophone.enter looks for
PermitLabels == { "use_microphone_and_camera", "allow_while_visiting_the_site" }

\* observation: the classifications of scenario B, the permission screen
\* with one of the two controls, and any page that is not the permission
\* screen (kept as "other", without its elements)
SeenByPermit(st, elements) ==
    IF st # "google_meet_allow_microphone"
    THEN [ state |-> "other", logged_in |-> FALSE, elements |-> << >> ]
    ELSE IF \E i \in 1..Len(elements) :
               elements[i].label \in { "use_microphone_and_camera",
                                       "allow_while_visiting_the_site" }
    THEN [ state |-> st, logged_in |-> FALSE, elements |-> elements ]
    ELSE NoPage

PermitMicrophoneEnter ==
    /\ pc = "enter"
    /\ current_state = "PermitMicrophone"
    /\ \E st \in GoogleMeetState : \E elements \in ElementsOn(st) :
       /\ seen' = SeenByPermit(st, elements)
       /\
        IF st = "google_meet_allow_microphone"
        THEN IF HasLabel(elements, PermitLabels)
             THEN /\ screen_calls' = ClickFirstWithLabel(elements, PermitLabels)
                  /\ SetState("PermitMicrophone", 0)
             ELSE /\ screen_calls' = << >>
                  /\ SetState("LandingPageState", 0)
        ELSE /\ screen_calls' = << >>
             /\ IF gm_link
                THEN SetState("JoinCurrentMeetingState", 0)
                ELSE SetState("InMeeting", 0)
    /\ LaAwaitOnly
    /\ UNCHANGED << gm_link, frames, restart_tries, wait_approval_tries,
                    error_msg, stopped, driver_quits, notified,
                    leave_call_event, sub, leave_calls, monitor_exit,
                    only_alone, alone_interrupted, stop_entries,
                    stop_notified, exhausted, fn >>
    /\ UNCHANGED dm

(***************************************************************************)
(* InMeeting.enter and MeetInMeetingController.run                         *)
(***************************************************************************)
\* observation: the classification when it is 'getting ready'
SeenByInMeeting(st) ==
    IF st = "google_meet_meeting_connection_page_getting_ready"
    THEN [ state |-> st, logged_in |-> FALSE, elements |-> << >> ]
    ELSE NoPage

InMeetingEnter ==
    /\ pc = "enter"
    /\ current_state = "InMeeting"
    /\ \E st \in GoogleMeetState :
        /\ seen' = SeenByInMeeting(st)
        /\ IF st = "google_meet_meeting_page"
           THEN \* sub_controller = MeetInMeetingController(...); run()
                \* self.gm_link = self.driver.current_url
                /\ Notify("meeting_ready", "driver.current_url")
                /\ sub_current_state' = "MeetingSubMachineStart"
                /\ pc' = "sub_enter"
                /\ error_msg' = error_msg
                \* control leaves the navigation states: the run of self
                \* re-entries is over
                /\ selfRun' = 0
                /\ UNCHANGED << current_state, retry, lj_entries >>
           ELSE /\ notified' = notified
                /\ sub_current_state' = sub_current_state
                \* the code compares controller.current_state (a state object)
                \* with a GoogleMeetState member
                /\ IF current_state = "google_meet_meeting_connection_page_getting_ready"
                   THEN IF retry < InMeeting_MAX_RETRIES
                        THEN error_msg' = error_msg /\ SetState("InMeeting", retry + 1)
                        ELSE /\ error_msg' = "Current state is getting_ready"
                             /\ SetState("StopState", 0)
                   ELSE /\ error_msg' = error_msg
                        /\ IF st = "google_meet_allow_microphone"
                           THEN SetState("PermitMicrophone", 0)
                           ELSE IF st = "google_meet_loading_call"
                           THEN SetState("InMeeting", 0)
                           ELSE SetState("LandingPageState", 0)
    /\ exhausted' =
          IF /\ current_state = "google_meet_meeting_connection_page_getting_ready"
             /\ ~(retry < InMeeting_MAX_RETRIES)
          THEN "inmeeting_retry" ELSE exhausted
    /\ LaAwaitOnly
    /\ screen_calls' = << >>
    /\ UNCHANGED << gm_link, frames, restart_tries, wait_approval_tries,
                    stopped, driver_quits, leave_call_event, sub_error_msg,
                    sub_leave_call_event, sub_stop_event,
                    alone_in_the_call_timer, getting_ready_error_count,
                    leave_calls, monitor_exit, only_alone, alone_interrupted,
                    stop_entries, stop_notified, fn >>
    /\ UNCHANGED dm


(***************************************************************************)
(* StopState.enter                                                         *)
(***************************************************************************)
\* variant: StopState.enter returns to its caller instead of exiting
StopStateEnterReturns ==
    /\ pc = "enter"
    /\ seen' = NoPage
    /\ current_state = "StopState"
    /\ IF error_msg # "None"
       THEN Notify("error", ConnectionLink) /\ stop_notified' = TRUE
       ELSE notified' = notified /\ stop_notified' = stop_notified
    /\ driver_quits' = driver_quits + 1
    /\ stopped' = TRUE
    /\ pc' = "return"
    /\ stop_entries' = Min(stop_entries + 1, 3)
    /\ screen_calls' = << >>
    /\ UNCHANGED << gm_link, current_state, retry, frames, restart_tries,
                    wait_approval_tries, error_msg, la, leave_call_event,
                    sub, selfRun, lj_entries, leave_calls, monitor_exit,
                    only_alone, alone_interrupted, exhausted, fn >>
    /\ UNCHANGED dm

StopStateEnter ==
    /\ pc = "enter"
    /\ seen' = NoPage
    /\ current_state = "StopState"
    \* `if self.controller.error_msg: notify_management_back(error)`
    /\ IF error_msg # "None"
       THEN Notify("error", ConnectionLink) /\ stop_notified' = TRUE
       ELSE notified' = notified /\ stop_notified' = stop_notified
    /\ driver_quits' = driver_quits + 1
    /\ stopped' = TRUE
    \* sys.exit(0): SystemExit is not an Exception, no handler catches it
    \* and every suspended frame is unwound
    /\ pc' = "exited"
    /\ frames' = << >>
    /\ stop_entries' = Min(stop_entries + 1, 3)
    /\ screen_calls' = << >>
    /\ UNCHANGED << gm_link, current_state, retry, restart_tries,
                    wait_approval_tries, error_msg, la, leave_call_event,
                    sub, selfRun, lj_entries, leave_calls, monitor_exit,
                    only_alone, alone_interrupted, exhausted, fn >>
    /\ UNCHANGED dm

(***************************************************************************)
(* Return of a nested enter(): the tails of JoinCurrentMeetingState.enter  *)
(* (unconditional set_state(StopState)) and of LandingPageState.enter      *)
(* (`if not self.controller.stopped`)                                      *)
(***************************************************************************)
ResumeTail ==
    /\ pc = "return"
    /\ seen' = NoPage
    /\ IF frames = << >>
       THEN \* controller.run() returns to worker_main.main
            /\ pc' = "finished"
            /\ UNCHANGED << frames, current_state, retry, selfRun,
                            lj_entries >>
       ELSE LET top == frames[Len(frames)]
            IN  /\ frames' = SubSeq(frames, 1, Len(frames) - 1)
                /\ IF top = "LandingPageState" /\ stopped
                   THEN ReturnToCaller
                   ELSE SetState("StopState", 0)
    /\ screen_calls' = << >>
    /\ UNCHANGED << gm_link, restart_tries, wait_approval_tries, error_msg,
                    stopped, driver_quits, notified, la, leave_call_event,
                    sub, leave_calls, monitor_exit, only_alone,
                    alone_interrupted, stop_entries, stop_notified, exhausted,
                    fn >>
    /\ UNCHANGED dm

(***************************************************************************)
(* gm_parser.run() raises outside the monitor's try block: the exception   *)
(* reaches `except Exception` of worker_main.main                          *)
(***************************************************************************)
ClassifierRaises ==
    /\ \/ pc = "enter" /\ current_state \in StateNames \ {"StopState"}
       \/ pc = "sub_enter" /\ sub_current_state = "MeetingSubMachineStart"
    /\ restart_tries' =
          IF pc = "enter" /\ current_state \in {"LandingPageState",
                                                "JoinCurrentMeetingState"}
          THEN restart_tries - 1 ELSE restart_tries
    /\ la_tasks' =
          IF pc = "enter" /\ current_state = "JoinCurrentMeetingState"
             /\ ~la_running
          THEN la_tasks + 1 ELSE la_tasks
    /\ la_running' =
          (LaAtAwait \/ (pc = "enter" /\ current_state = "JoinCurrentMeetingState"))
    /\ la_pending' = 0
    \* MeetingProgress(status=StatusEnum.error, ...): gm_link defaults to None
    /\ Notify("error", "None")
    /\ driver_quits' = driver_quits + 1
    /\ frames' = << >>
    /\ pc' = "boundary"
    /\ screen_calls' = << >>
    /\ seen' = NoPage
    /\ UNCHANGED << gm_link, current_state, retry, wait_approval_tries,
                    error_msg, stopped, leave_call_event, sub, obs, fn >>
    /\ UNCHANGED dm

(***************************************************************************)
(* MeetingSubMachineStart.enter                                            *)
(***************************************************************************)
MeetingSubMachineStartEnter ==
    /\ pc = "sub_enter"
    /\ seen' = NoPage
    /\ sub_current_state = "MeetingSubMachineStart"
    /\ \E st \in MonitorPageStates :
        IF st = "google_meet_meeting_page"
        THEN \* set_state(MeetingSubMachineInMeeting): its enter() sets
             \* both loop counters to 0 and starts polling
             /\ sub_current_state' = "MeetingSubMachineInMeeting"
             /\ alone_in_the_call_timer' = 0
             /\ getting_ready_error_count' = 0
             /\ pc' = "monitor"
        ELSE /\ pc' = "return"
             /\ UNCHANGED << sub_current_state, alone_in_the_call_timer,
                             getting_ready_error_count >>
    /\ LaAwaitOnly
    \* ScreenActions.click((640, 280))
    /\ screen_calls' = << click_at(640, 280) >>
    /\ UNCHANGED << gm_link, current_state, retry, frames, restart_tries,
                    wait_approval_tries, error_msg, stopped, driver_quits,
                    notified, leave_call_event, sub_error_msg,
                    sub_leave_call_event, sub_stop_event, obs, fn >>
    /\ UNCHANGED dm

(***************************************************************************)
(* MeetingSubMachineInMeeting.enter: one iteration of `while True`         *)
(***************************************************************************)
\* variant: strict comparison with the threshold
AloneTooLongStrict(timer) == timer > ALONE_LIMIT

\* `if alone_in_the_call_timer >= 120` after the increment
AloneTooLong(timer) == timer >= ALONE_LIMIT

\* `if getting_ready_error_count > 2`
GettingReadyExhausted(count) == count > GETTING_READY_TOLERANCE

\* variant: a poll that is not alone starts the count again
AloneTimerReset(timer, alone) == IF alone THEN timer + 1 ELSE 0

\* the timer after a poll classified as active call
AloneTimerAfter(timer, alone) == IF alone THEN timer + 1 ELSE timer

\* variant: the message does not name the state
UnknownPageStateUnnamed(st) == "Unknown page state. Closing connections!"

\* f"Unknown page state {self.controller.cur_page.state}. Closing connections!"
UnknownPageState(st) ==
    "Unknown page state " \o st \o ". Closing connections!"

\* observation: the classification of an iteration that is neither an
\* active call nor 'getting ready'
SeenByMonitor(raised, st) ==
    IF /\ ~raised
       /\ st \notin { "google_meet_meeting_page",
                       "google_meet_meeting_connection_page_getting_ready" }
    THEN [ state |-> st, logged_in |-> FALSE, elements |-> << >> ]
    ELSE NoPage

\* break, then set_state(MeetingSubMachineStop); the two loop counters are
\* locals that nothing reads after the loop, they are dropped here
MonitorBreak(cause) ==
    /\ monitor_exit' = cause
    /\ sub_current_state' = "MeetingSubMachineStop"
    /\ pc' = "sub_enter"
    /\ alone_in_the_call_timer' = 0
    /\ getting_ready_error_count' = 0

\* next iteration of the loop with the given counters
MonitorContinue(timer, count) ==
    /\ monitor_exit' = monitor_exit
    /\ sub_current_state' = sub_current_state
    /\ pc' = "monitor"
    /\ alone_in_the_call_timer' = timer
    /\ getting_ready_error_count' = count

\* the element lists and screens the monitor is polled with
MonitorElementLists ==
    { << >>,
      << ControlElem("your_meeting_is_ready_close_button", Box1),
         ControlElem("meet_call_control_end_call", Box2) >> }

MonitorScreens ==
    { [ shown |-> Icons, locate_none |-> FALSE ],
      [ shown |-> {}, locate_none |-> FALSE ] }

\* the host's part of an active-call iteration: close the 'meeting is
\* ready' box when it is found exactly, then admit_participant
HostCalls(elements, screen) ==
    LET found == find_element(elements, "your_meeting_is_ready_close_button",
                              { "your_meeting_is_ready_close" })
    IN  << lookup("your_meeting_is_ready_close_button", found) >>
        \o (IF found.confidence = 10000
            THEN << click(elements[found.element]) >> ELSE << >>)
        \o admit_participant(elements, screen).calls

\* One iteration as the classifier and the screen determine it: whether
\* gm_parser.run() raised, the page state, alone_in_the_call, and the calls
\* that leave_call and the host's part make on the elements and the screen
\* of the iteration.  alone_in_the_call, the elements and the screen are
\* read for an active call only, and a call that raises returns nothing.
MonitorPolls ==
    { << FALSE, "google_meet_meeting_page", alone,
         leave_call(elements, screen), HostCalls(elements, screen) >> :
        alone \in BOOLEAN, elements \in MonitorElementLists,
        screen \in MonitorScreens }
    \cup { << FALSE, st, FALSE, << >>, << >> >> :
             st \in MonitorPageStates \ { "google_meet_meeting_page" } }
    \cup { << TRUE, "google_meet_unknown_page", FALSE, << >>, << >> >> }

MeetingSubMachineInMeetingPoll ==
    /\ pc = "monitor"
    /\ \E poll \in MonitorPolls :
        LET raised == poll[1]
            st == poll[2]
            alone == poll[3]
            leave_call_calls == poll[4]
            host_calls == poll[5]
        IN
        /\ seen' = SeenByMonitor(raised, st)
        /\ exhausted' =
              IF /\ ~raised
                 /\ st = "google_meet_meeting_connection_page_getting_ready"
                 /\ GettingReadyExhausted(getting_ready_error_count)
              THEN "in_call_getting_ready" ELSE exhausted
        /\
         IF raised
         THEN \* except Exception as ex: error_msg = str(ex)
              /\ sub_error_msg' = "exception"
              /\ MonitorBreak("exception")
              /\ only_alone' = FALSE
              /\ screen_calls' = << >>
              /\ UNCHANGED << leave_calls, alone_interrupted >>
         ELSE IF st = "google_meet_meeting_page"
         THEN /\ sub_error_msg' = sub_error_msg
              /\ only_alone' = (only_alone /\ alone)
              /\ alone_interrupted' =
                    (alone_interrupted \/ (~alone /\ alone_in_the_call_timer > 0))
              /\ IF sub_leave_call_event
                 THEN /\ leave_calls' = leave_calls + 1
                      /\ screen_calls' = leave_call_calls
                      /\ MonitorBreak("leave")
                 ELSE LET timer == AloneTimerAfter(alone_in_the_call_timer, alone)
                      IN  IF alone /\ AloneTooLong(timer)
                          THEN /\ leave_calls' = leave_calls + 1
                               /\ screen_calls' = leave_call_calls
                               /\ MonitorBreak("alone")
                          ELSE /\ leave_calls' = leave_calls
                               /\ screen_calls' =
                                     IF meeting_host
                                     THEN host_calls
                                     ELSE << >>
                               /\ MonitorContinue(timer, getting_ready_error_count)
         ELSE IF st = "google_meet_meeting_connection_page_getting_ready"
         THEN /\ sub_error_msg' = sub_error_msg
              /\ only_alone' = FALSE
              /\ screen_calls' = << >>
              /\ UNCHANGED << leave_calls, alone_interrupted >>
              /\ IF GettingReadyExhausted(getting_ready_error_count)
                 THEN MonitorBreak("getting_ready")
                 ELSE MonitorContinue(alone_in_the_call_timer,
                                      getting_ready_error_count + 1)
         ELSE /\ sub_error_msg' = UnknownPageState(st)
              /\ MonitorBreak("unknown")
              /\ only_alone' = FALSE
              /\ screen_calls' = << >>
              /\ UNCHANGED << leave_calls, alone_interrupted >>
    /\ LaAwaitOnly
    /\ UNCHANGED << gm_link, current_state, retry, frames, restart_tries,
                    wait_approval_tries, error_msg, stopped, driver_quits,
                    notified, leave_call_event, sub_leave_call_event,
                    sub_stop_event, selfRun, lj_entries, stop_entries,
                    stop_notified, fn >>
    /\ UNCHANGED dm

(***************************************************************************)
(* MeetingSubMachineStop.enter                                             *)
(***************************************************************************)
MeetingSubMachineStopEnter ==
    /\ pc = "sub_enter"
    /\ seen' = NoPage
    /\ sub_current_state = "MeetingSubMachineStop"
    /\ sub_stop_event' = TRUE
    /\ pc' = "return"
    /\ screen_calls' = << >>
    /\ UNCHANGED << gm_link, current_state, retry, frames, restart_tries,
                    wait_approval_tries, error_msg, stopped, driver_quits,
                    notified, la, leave_call_event, sub_current_state,
                    sub_error_msg, sub_leave_call_event,
                    alone_in_the_call_timer, getting_ready_error_count, obs,
                    fn >>
    /\ UNCHANGED dm

(***************************************************************************)
(* AssistantLive.receive_audio: the 'leave_call' tool call of the running  *)
(* assistant (the controller's live_assistant, the only one whose run() is *)
(* ever scheduled)                                                         *)
(***************************************************************************)
\* variant: a second 'leave_call' tool call takes the request back
AssistantLeaveToolCallToggles ==
    /\ la_running
    /\ pc \notin {"exited", "boundary", "finished"}
    /\ leave_call_event' = ~leave_call_event
    /\ UNCHANGED << ctl, la, sub, obs, screen_calls, seen, fn >>
    /\ UNCHANGED dm

AssistantLeaveToolCall ==
    /\ la_running
    /\ pc \notin {"exited", "boundary", "finished"}
    /\ ~leave_call_event
    /\ leave_call_event' = TRUE
    /\ UNCHANGED << ctl, la, sub, obs, screen_calls, seen, fn >>
    /\ UNCHANGED dm

Next ==
    \/ Run
    \/ LandingPageStateEnter
    \/ JoinCurrentMeetingStateEnter
    \/ GoogleLoginStateEnter
    \/ JoinCurrentMeetingAwaitApprovalStateEnter
    \/ CreateNewMeetingStateEnter
    \/ PermitMicrophoneEnter
    \/ InMeetingEnter
    \/ StopStateEnter
    \/ ResumeTail
    \/ ClassifierRaises
    \/ MeetingSubMachineStartEnter
    \/ MeetingSubMachineInMeetingPoll
    \/ MeetingSubMachineStopEnter
    \/ AssistantLeaveToolCall

Spec == Init /\ [][Next]_vars

(***************************************************************************)
(* The helpers of the in-call monitor applied on their own: leave_call and *)
(* admit_participant are functions of the classified elements and of the   *)
(* screen; here they are applied to every element list and screen below.   *)
(***************************************************************************)
\* labels a classification of the call page can carry: the labels the
\* helpers look up, aliases, labels that only a fallback prefix matches,
\* and an unrelated one
ScreenLabels ==
    { "someone_wants_to_join_this_call_admit_button",
      "someone_wants_to_join_this_call_admit",
      "someone_wants_to_join_this_call_view",
      "meet_callcontrol_viewparticipantsbutton",
      "call_control_view_button",
      "people_admit_button",
      "people_popup_admit_all_button",
      "people_admit_all",
      "people_popup_admit_all",
      "people_popup_admit",
      "admit_all_admit_button",
      "admit_all_admit",
      "meet_call_control_end_call_button",
      "meet_leave_call_button",
      "meet_call_control_end_call",
      "meet_call_control_end",
      "mute_audio" }

\* element lists of up to two elements
ScreenElementLists ==
    { << >> }
    \cup { << ControlElem(l, Box1) >> : l \in ScreenLabels }
    \cup { << ControlElem(l1, Box1), ControlElem(l2, Box2) >> :
              l1 \in ScreenLabels, l2 \in ScreenLabels }

HelperCalls ==
    [ fn : { "leave_call", "admit_participant" },
      elements : ScreenElementLists, screen : Screens ]

InitScreen ==
    /\ gm_link = FALSE
    /\ pc = "helper"
    /\ ControllerInit
    /\ fn_call \in HelperCalls
    /\ fn_result = "pending"
    /\ DockerManagerInit

LeaveCallApply ==
    /\ fn_call.fn = "leave_call"
    /\ seen' = NoPage
    /\ fn_result = "pending"
    /\ screen_calls' = leave_call(fn_call.elements, fn_call.screen)
    /\ fn_result' = "None"
    /\ UNCHANGED << ctl, la, leave_call_event, sub, obs, fn_call >>
    /\ UNCHANGED dm

AdmitParticipantApply ==
    /\ fn_call.fn = "admit_participant"
    /\ seen' = NoPage
    /\ fn_result = "pending"
    /\ LET r == admit_participant(fn_call.elements, fn_call.screen)
       IN  /\ screen_calls' = r.calls
           /\ fn_result' = r.result
    /\ UNCHANGED << ctl, la, leave_call_event, sub, obs, fn_call >>
    /\ UNCHANGED dm

NextScreen ==
    \/ LeaveCallApply
    \/ AdmitParticipantApply

SpecScreen == InitScreen /\ [][NextScreen]_vars

(***************************************************************************)
(* ControlFinder applied on its own: _generate_fallbacks and find_element  *)
(* are applied to every base label, alias list and element list below.     *)
(***************************************************************************)
\* base labels of zero to five parts, with empty parts among them
FinderBaseLabels ==
    { "", "a", "a_b", "a_b_c", "a_b_c_d", "a_b_c_d_e", "a_b_", "__" }

\* labels of the classified elements: equal to a base label, containing a
\* prefix of one at the start or in the middle, or unrelated
FinderElementLabels ==
    { "a", "a_b", "a_b_c", "a_b_c_d", "a_b_x", "x_a_b_c_y", "b_c", "x" }

\* the alias lists; `aliases or []` makes None the empty list
FinderAliases == { {}, { "x" }, { "b_c", "x" } }

\* element lists of up to three elements, each at a box of its own
FinderElementLists ==
    { << >> }
    \cup { << ControlElem(l, Box1) >> : l \in FinderElementLabels }
    \cup { << ControlElem(l1, Box1), ControlElem(l2, Box2) >> :
              l1 \in FinderElementLabels, l2 \in FinderElementLabels }
    \cup { << ControlElem(l1, Box1), ControlElem(l2, Box2),
              ControlElem(l3, Box1) >> :
              l1 \in { "x", "a_b_x", "b_c" },
              l2 \in FinderElementLabels, l3 \in FinderElementLabels }

FinderCalls ==
    [ fn : { "find_element" }, elements : FinderElementLists,
      base_label : FinderBaseLabels, aliases : FinderAliases ]
    \cup [ fn : { "_generate_fallbacks" }, elements : { << >> },
           base_label : FinderBaseLabels, aliases : { {} } ]

\* ControlFinder(elements) is constructed; the method has not been called
InitFinder ==
    /\ gm_link = FALSE
    /\ pc = "helper"
    /\ ControllerInit
    /\ fn_call \in FinderCalls
    /\ fn_result = "pending"
    /\ DockerManagerInit

\* fallbacks = finder._generate_fallbacks(base_label)
GenerateFallbacksApply ==
    /\ pc = "helper"
    /\ fn_call.fn = "_generate_fallbacks"
    /\ pc' = "returned"
    /\ fn_result' = _generate_fallbacks(fn_call.base_label)
    /\ UNCHANGED << gm_link, current_state, retry, frames, restart_tries,
                    wait_approval_tries, error_msg, stopped, driver_quits,
                    notified, la, leave_call_event, sub, obs, screen_calls,
                    seen, fn_call >>
    /\ UNCHANGED dm

\* element, confidence = finder.find_element(base_label, aliases); the
\* result carries self.elements as the call leaves it (the method only
\* reads it)
FindElementApply ==
    /\ pc = "helper"
    /\ fn_call.fn = "find_element"
    /\ pc' = "returned"
    /\ LET found == find_element(fn_call.elements, fn_call.base_label,
                                 fn_call.aliases)
       IN  fn_result' = [ element |-> found.element,
                          confidence |-> found.confidence,
                          elements |-> fn_call.elements ]
    /\ UNCHANGED << gm_link, current_state, retry, frames, restart_tries,
                    wait_approval_tries, error_msg, stopped, driver_quits,
                    notified, la, leave_call_event, sub, obs, screen_calls,
                    seen, fn_call >>
    /\ UNCHANGED dm

NextFinder ==
    \/ GenerateFallbacksApply
    \/ FindElementApply

SpecFinder == InitFinder /\ [][NextFinder]_vars

(***************************************************************************)
(* gm_helper.py: GMPageParserAIv3.run, from the answers of the model to    *)
(* the classification it returns                                           *)
(***************************************************************************)
UpperCase == "ABCDEFGHIJKLMNOPQRSTUVWXYZ"
LowerCase == "abcdefghijklmnopqrstuvwxyz"

\* one character of label.lower().replace(" ", "_")
LowerReplaceChar(c) ==
    IF c = " " THEN "_"
    ELSE IF \E i \in 1..Len(UpperCase) : SubSeq(UpperCase, i, i) = c
    THEN LET i == CHOOSE k \in 1..Len(UpperCase) : SubSeq(UpperCase, k, k) = c
         IN  SubSeq(LowerCase, i, i)
    ELSE c

RECURSIVE LowerReplace(_)
\* element.label.lower().replace(" ", "_")
LowerReplace(label) ==
    IF label = "" THEN ""
    ELSE LowerReplaceChar(SubSeq(label, 1, 1))
            \o LowerReplace(SubSeq(label, 2, Len(label)))

\* rel / 1000 * dimension is computed in double precision; for the
\* coordinates and dimensions below the product has the integer part of
\* the exact quotient except here, where the exact quotient is whole and
\* the double falls just below it (290 / 1000 * 100 = 28.999999999999996)
FloatBelowWhole == { << 290, 100 >> }

Abs(n) == IF n >= 0 THEN n ELSE 0 - n

\* variant: round(rel / 1000 * dimension), ties to the even neighbour
IntScaleRounded(rel, dimension) ==
    LET q == (Abs(rel) * dimension) \div 1000
        r == (Abs(rel) * dimension) % 1000
        whole == IF r < 500 THEN q
                 ELSE IF r > 500 THEN q + 1
                 ELSE IF q % 2 = 0 THEN q ELSE q + 1
    IN  IF rel >= 0 THEN whole ELSE 0 - whole

\* int(rel / 1000 * dimension): truncation toward zero
IntScale(rel, dimension) ==
    LET whole == (Abs(rel) * dimension) \div 1000
                    - (IF << Abs(rel), dimension >> \in FloatBelowWhole
                       THEN 1 ELSE 0)
    IN  IF rel >= 0 THEN whole ELSE 0 - whole

\* variant: the endpoints stay as they are
KeepEndpoints(abs_1, abs_2) == << abs_1, abs_2 >>

\* `if abs_1 > abs_2: abs_1, abs_2 = abs_2, abs_1`
SwapEndpoints(abs_1, abs_2) ==
    IF abs_1 > abs_2 THEN << abs_2, abs_1 >> ELSE << abs_1, abs_2 >>

\* elem.box_2d = [abs_y1, abs_x1, abs_y2, abs_x2] with image_size =
\* (width, height)
AbsoluteBox(box_2d, image_size) ==
    LET ys == SwapEndpoints(IntScale(box_2d[1], image_size[2]),
                            IntScale(box_2d[3], image_size[2]))
        xs == SwapEndpoints(IntScale(box_2d[2], image_size[1]),
                            IntScale(box_2d[4], image_size[1]))
    IN  << ys[1], xs[1], ys[2], xs[2] >>

\* GMPageParserAIv3.run: the state of the first answer selects the logic
\* that produces the elements.  The general logic (schema-constrained
\* answer) rewrites each label; the logic of the call page (free-form
\* answer validated by TypeAdapter) keeps it as the model wrote it.
run(state, elements, image_size) ==
    [ state |-> state,
      elements |->
        [ i \in 1..Len(elements) |->
            ControlElem(IF state = "google_meet_meeting_page"
                        THEN elements[i].label
                        ELSE LowerReplace(elements[i].label),
                        AbsoluteBox(elements[i].box_2d, image_size)) ] ]

\* labels as the model writes them
RawLabels ==
    { "mute_audio", "Raise hand button", "Leave call",
      "meet_call_control_end_call_button" }

\* coordinates on the model's scale of 0 to 1000, and beyond it
RelValues == { 0 - 5, 0, 290, 501, 999, 1000 }

\* (width, height) of the screenshot
ImageSizes == { << 1024, 768 >>, << 100, 100 >> }

RawBoxes == { << y1, x1, y2, x2 >> : y1 \in RelValues, x1 \in RelValues,
                                      y2 \in RelValues, x2 \in RelValues }

\* the elements of the second answer: none, one, or one after another
RawElementLists ==
    { << >> }
    \cup { << ControlElem(l, b) >> : l \in RawLabels, b \in RawBoxes }
    \cup { << ControlElem("Raise hand button", << 999, 501, 290, 0 >>),
              ControlElem(l, b) >> : l \in RawLabels, b \in RawBoxes }

ParserCalls ==
    [ fn : { "run" },
      state : { "google_meet_meeting_page", "google_meet_initial_page" },
      elements : RawElementLists, image_size : ImageSizes ]

InitParser ==
    /\ gm_link = FALSE
    /\ pc = "helper"
    /\ ControllerInit
    /\ fn_call \in ParserCalls
    /\ fn_result = "pending"
    /\ DockerManagerInit

\* cur_page = await gm_parser.run()
RunApply ==
    /\ pc = "helper"
    /\ fn_call.fn = "run"
    /\ pc' = "returned"
    /\ fn_result' = run(fn_call.state, fn_call.elements, fn_call.image_size)
    /\ UNCHANGED << gm_link, current_state, retry, frames, restart_tries,
                    wait_approval_tries, error_msg, stopped, driver_quits,
                    notified, la, leave_call_event, sub, obs, screen_calls,
                    seen, fn_call >>
    /\ UNCHANGED dm

NextParser == RunApply

SpecParser == InitParser /\ [][NextParser]_vars

(***************************************************************************)
(* gm_helper.py: ScreenActions applied on its own, on a screen and a       *)
(* pointer that can refuse the click                                       *)
(***************************************************************************)
\* the argument of click: a ControlElem, a tuple (x, y), or None (the
\* parameter is Optional); `elem` and `point` are read for their kind only
ClickArgs ==
    [ kind : { "ControlElem" }, elem : { ControlElem("mute_audio", Box1),
                                         ControlElem("mute_audio", Box2) },
      point : { << 0, 0 >> } ]
    \cup [ kind : { "tuple" }, elem : { ControlElem("", Box1) },
           point : { << 640, 280 >>, << 0, 0 >> } ]
    \cup [ kind : { "None" }, elem : { ControlElem("", Box1) },
           point : { << 0, 0 >> } ]

\* A call of a ScreenActions method with what it meets: the screen, and
\* whether pyautogui.click raises (fail-safe triggered, display lost)
ActionCalls ==
    [ fn : { "click" }, arg : ClickArgs, icon : { "" }, shift_x : { 0 },
      screen : { [ shown |-> {}, locate_none |-> FALSE ] },
      click_raises : BOOLEAN ]
    \cup [ fn : { "click_icon" }, arg : { CHOOSE a \in ClickArgs : a.kind = "None" },
           icon : Icons, shift_x : { 0 }, screen : Screens,
           click_raises : BOOLEAN ]
    \cup [ fn : { "click_icon_with_shift" },
           arg : { CHOOSE a \in ClickArgs : a.kind = "None" },
           icon : Icons, shift_x : { 0, 100 }, screen : Screens,
           click_raises : BOOLEAN ]

\* What the call does and how it ends: the calls that reached the pointer,
\* and "raised" when an exception leaves the method, else the value
\* returned.  click has no try: control_elem.box_2d of None and a raising
\* pyautogui.click leave it.  click_icon and click_icon_with_shift return
\* False from their `except Exception`.
ScreenActionsOutcome(call) ==
    IF call.fn = "click"
    THEN IF call.arg.kind = "None" \/ call.click_raises
         THEN [ calls |-> << >>, result |-> "raised" ]
         ELSE [ calls |-> << IF call.arg.kind = "tuple"
                             THEN click_at(call.arg.point[1], call.arg.point[2])
                             ELSE click(call.arg.elem) >>,
                result |-> "None" ]
    ELSE IF call.fn = "click_icon"
    THEN IF call.click_raises
         THEN [ calls |-> << >>, result |-> "False" ]
         ELSE [ calls |-> << click_icon(call.icon, call.screen) >>,
                result |-> IF click_icon_result(call.icon, call.screen)
                           THEN "True" ELSE "False" ]
    ELSE IF call.click_raises /\ call.icon \in call.screen.shown
    THEN [ calls |-> << >>, result |-> "False" ]
    ELSE [ calls |-> << click_icon_with_shift(call.icon, call.shift_x,
                                              call.screen) >>,
           result |-> IF click_icon_with_shift_result(call.icon, call.screen)
                      THEN "True" ELSE "False" ]

InitActions ==
    /\ gm_link = FALSE
    /\ pc = "helper"
    /\ ControllerInit
    /\ fn_call \in ActionCalls
    /\ fn_result = "pending"
    /\ DockerManagerInit

ScreenActionsApply ==
    /\ pc = "helper"
    /\ pc' = "returned"
    /\ LET r == ScreenActionsOutcome(fn_call)
       IN  /\ screen_calls' = r.calls
           /\ fn_result' = r.result
    /\ UNCHANGED << gm_link, current_state, retry, frames, restart_tries,
                    wait_approval_tries, error_msg, stopped, driver_quits,
                    notified, la, leave_call_event, sub, obs, seen, fn_call >>
    /\ UNCHANGED dm

NextActions == ScreenActionsApply

SpecActions == InitActions /\ [][NextActions]_vars

(***************************************************************************)
(* connection_manager/docker_manager.py: the DockerManager singleton under *)
(* its threads.  launch_container runs on executor threads, stop_session   *)
(* on the event loop, monitor_containers on its own thread; every `with    *)
(* lock:` block of the class holds one statement, which is one step here.  *)
(***************************************************************************)
\* launch_container calls started in a behaviour
MaxLaunches == 2

port_range == 5900..6000

\* find_unlaunched_container_settings: the index of the first settings
\* whose is_launched is false, 0 for None
find_unlaunched_container_settings ==
    LET free == { i \in 1..Len(containers_settings) :
                    ~containers_settings[i].is_launched }
    IN  IF free = {} THEN 0
        ELSE CHOOSE i \in free : \A j \in free : i <= j

\* find_container_settings_by_email: the index of the first settings with
\* that e-mail, 0 for None
find_container_settings_by_email(email) ==
    LET same == { i \in 1..Len(containers_settings) :
                    containers_settings[i].google_email = email }
    IN  IF same = {} THEN 0
        ELSE CHOOSE i \in same : \A j \in same : i <= j

\* _find_available_port: the first port of the range that is not occupied,
\* 0 for None
_find_available_port ==
    LET free == port_range \ occupied_ports
    IN  IF free = {} THEN 0
        ELSE CHOOSE p \in free : \A q \in free : p <= q

\* _release_port
_release_port(ports, port) == ports \ { port }

\* `user_id in self.active_containers`
ActiveUsers == { u \in UserIds : active_containers[u] # 0 }

\* launch_container, up to `if container_settings is None`, on the first
\* free thread of the executor
LaunchContainerCall ==
    /\ pc = "manager"
    /\ launches < MaxLaunches
    /\ launches' = launches + 1
    /\ \E u \in UserIds :
        LET t == IF threads["executor1"].pc = "idle"
                 THEN "executor1" ELSE "executor2"
            cs == find_unlaunched_container_settings
        IN  /\ threads[t].pc = "idle"
            /\ threads' =
                  IF cs = 0
                  THEN threads
                  ELSE [ threads EXCEPT ![t] =
                           [ IdleThread EXCEPT
                               !.pc = "launch_check_user",
                               !.user_id = u,
                               !.container_settings = cs ] ]
    /\ UNCHANGED << ctl, la, leave_call_event, sub, obs, screen_calls, seen,
                    fn, active_containers, containers_settings,
                    occupied_ports, log_streaming_threads, containers >>

\* `if user_id in self.active_containers: return "You already have ..."`
LaunchCheckUser ==
    /\ \E t \in LaunchThreads :
        /\ threads[t].pc = "launch_check_user"
        /\ IF threads[t].user_id \in ActiveUsers
           THEN threads' = [ threads EXCEPT ![t] = IdleThread ]
           ELSE threads' = [ threads EXCEPT ![t].pc = "launch_find_port" ]
    /\ UNCHANGED << ctl, la, leave_call_event, sub, obs, screen_calls, seen,
                    fn, active_containers, containers_settings,
                    occupied_ports, log_streaming_threads, containers, launches >>

\* `host_port = self._find_available_port()` and the return on None
LaunchFindPort ==
    /\ \E t \in LaunchThreads :
        LET port == _find_available_port
        IN  /\ threads[t].pc = "launch_find_port"
            /\ IF port = 0
               THEN /\ threads' = [ threads EXCEPT ![t] = IdleThread ]
                    /\ UNCHANGED occupied_ports
               ELSE /\ occupied_ports' = occupied_ports \cup { port }
                    /\ threads' = [ threads EXCEPT ![t].pc = "launch_run",
                                                   ![t].host_port = port ]
    /\ UNCHANGED << ctl, la, leave_call_event, sub, obs, screen_calls, seen,
                    fn, active_containers, containers_settings,
                    log_streaming_threads, containers, launches >>

\* docker_client.containers.run: the daemon starts the container or the
\* call raises (it must when the host port is bound), and then the port
\* is released and the call returns
LaunchRun ==
    /\ \E t \in LaunchThreads, raises \in BOOLEAN :
        /\ threads[t].pc = "launch_run"
        \* the daemon refuses a host port it has bound for a running one
        /\ (\E c \in 1..Len(containers) :
               /\ containers[c].status = "running"
               /\ containers[c].host_port = threads[t].host_port) => raises
        /\ IF raises
           THEN /\ occupied_ports' =
                       _release_port(occupied_ports, threads[t].host_port)
                /\ threads' = [ threads EXCEPT ![t] = IdleThread ]
                /\ UNCHANGED containers
           ELSE /\ containers' =
                     Append(containers,
                            [ status |-> "running",
                              google_email |->
                                 containers_settings[
                                    threads[t].container_settings].google_email,
                              host_port |-> threads[t].host_port,
                              user_id |-> threads[t].user_id ])
                /\ threads' =
                     [ threads EXCEPT ![t].pc = "launch_log_thread",
                                      ![t].container = Len(containers) + 1 ]
                /\ UNCHANGED occupied_ports
    /\ UNCHANGED << ctl, la, leave_call_event, sub, obs, screen_calls, seen,
                    fn, active_containers, containers_settings,
                    log_streaming_threads, launches >>

\* `self.log_streaming_threads[user_id] = log_thread`
LaunchLogThread ==
    /\ \E t \in LaunchThreads :
        /\ threads[t].pc = "launch_log_thread"
        /\ log_streaming_threads' =
              log_streaming_threads \cup { threads[t].user_id }
        /\ threads' = [ threads EXCEPT ![t].pc = "launch_set_launched" ]
    /\ UNCHANGED << ctl, la, leave_call_event, sub, obs, screen_calls, seen,
                    fn, active_containers, containers_settings,
                    occupied_ports, containers, launches >>

\* `container_settings.is_launched = True`
LaunchSetLaunched ==
    /\ \E t \in LaunchThreads :
        /\ threads[t].pc = "launch_set_launched"
        /\ containers_settings' =
              [ containers_settings EXCEPT
                   ![threads[t].container_settings].is_launched = TRUE ]
        /\ threads' = [ threads EXCEPT ![t].pc = "launch_set_active" ]
    /\ UNCHANGED << ctl, la, leave_call_event, sub, obs, screen_calls, seen,
                    fn, active_containers, occupied_ports,
                    log_streaming_threads, containers, launches >>

\* `self.active_containers[user_id] = container; return "OK"`
LaunchSetActive ==
    /\ \E t \in LaunchThreads :
        /\ threads[t].pc = "launch_set_active"
        /\ active_containers' =
              [ active_containers EXCEPT
                   ![threads[t].user_id] = threads[t].container ]
        /\ threads' = [ threads EXCEPT ![t] = IdleThread ]
    /\ UNCHANGED << ctl, la, leave_call_event, sub, obs, screen_calls, seen,
                    fn, containers_settings, occupied_ports,
                    log_streaming_threads, containers, launches >>

\* stop_session of a user with a container: container.stop(), which raises
\* NotFound out of stop_session when the container is gone, then
\* cleanup_container_resources(container, user_id)
StopSession ==
    /\ pc = "manager"
    /\ threads["main"].pc = "idle"
    /\ \E u \in ActiveUsers :
        LET c == active_containers[u]
        IN  IF containers[c].status = "removed"
            THEN UNCHANGED << containers, threads >>
            ELSE /\ containers' = [ containers EXCEPT ![c].status = "exited" ]
                 /\ threads' =
                      [ threads EXCEPT !["main"] =
                          [ IdleThread EXCEPT !.pc = "cleanup_log_threads",
                                              !.user_id = u,
                                              !.container = c,
                                              !.container_arg = TRUE ] ]
    /\ UNCHANGED << ctl, la, leave_call_event, sub, obs, screen_calls, seen,
                    fn, active_containers, containers_settings,
                    occupied_ports, log_streaming_threads, launches >>

\* monitor_containers: `user_ids = list(self.active_containers.keys())`
MonitorSnapshot ==
    /\ pc = "manager"
    /\ threads["monitor"].pc = "idle"
    /\ ActiveUsers # {}
    /\ threads' = [ threads EXCEPT !["monitor"].pc = "monitor_next",
                                   !["monitor"].user_ids = ActiveUsers ]
    /\ UNCHANGED << ctl, la, leave_call_event, sub, obs, screen_calls, seen,
                    fn, active_containers, containers_settings,
                    occupied_ports, log_streaming_threads, containers,
                    launches >>

\* one pass of the for loop of monitor_containers: get, reload, and the
\* call of cleanup_container_resources; sleep(5) after the last user
MonitorCheck ==
    /\ threads["monitor"].pc = "monitor_next"
    /\ LET me == threads["monitor"]
       IN  IF me.user_ids = {}
           THEN threads' = [ threads EXCEPT !["monitor"] = IdleThread ]
           ELSE \E u \in me.user_ids :
                 LET c == active_containers[u]
                     rest == [ IdleThread EXCEPT
                                  !.pc = "monitor_next",
                                  !.user_ids = me.user_ids \ { u } ]
                 IN  threads' =
                       [ threads EXCEPT !["monitor"] =
                           IF c = 0 \/ (c # 0 /\ containers[c].status = "running")
                           THEN rest
                           ELSE [ rest EXCEPT
                                    !.pc = "cleanup_log_threads",
                                    !.user_id = u,
                                    !.container = c,
                                    !.container_arg =
                                       containers[c].status # "removed" ] ]
    /\ UNCHANGED << ctl, la, leave_call_event, sub, obs, screen_calls, seen,
                    fn, active_containers, containers_settings,
                    occupied_ports, log_streaming_threads, containers,
                    launches >>

\* cleanup_container_resources: `del self.log_streaming_threads[user_id]`
CleanupLogThreads ==
    /\ \E t \in CleanupThreads :
        /\ threads[t].pc = "cleanup_log_threads"
        /\ log_streaming_threads' =
              log_streaming_threads \ { threads[t].user_id }
        /\ threads' =
              [ threads EXCEPT ![t].pc =
                   IF threads[t].container_arg THEN "cleanup_settings"
                   ELSE "cleanup_finally" ]
    /\ UNCHANGED << ctl, la, leave_call_event, sub, obs, screen_calls, seen,
                    fn, active_containers, containers_settings,
                    occupied_ports, containers, launches >>

\* `if container:` the e-mail of the container's environment, its
\* settings, `container_settings.is_launched = False`
CleanupSettings ==
    /\ \E t \in CleanupThreads :
        LET email == containers[threads[t].container].google_email
            cs == find_container_settings_by_email(email)
        IN  /\ threads[t].pc = "cleanup_settings"
            /\ containers_settings' =
                  IF cs = 0 THEN containers_settings
                  ELSE [ containers_settings EXCEPT ![cs].is_launched = FALSE ]
            /\ threads' = [ threads EXCEPT ![t].pc = "cleanup_reload" ]
    /\ UNCHANGED << ctl, la, leave_call_event, sub, obs, screen_calls, seen,
                    fn, active_containers, occupied_ports,
                    log_streaming_threads, containers, launches >>

\* `container.reload()` and the read of container.ports, taken to list
\* the host port for as long as the container exists; NotFound is caught
\* and logged, and no port is released
CleanupReload ==
    /\ \E t \in CleanupThreads :
        LET c == threads[t].container
        IN  /\ threads[t].pc = "cleanup_reload"
            /\ threads' =
                  IF containers[c].status = "removed"
                  THEN [ threads EXCEPT ![t].pc = "cleanup_remove" ]
                  ELSE [ threads EXCEPT
                            ![t].pc = "cleanup_release",
                            ![t].ports = { containers[c].host_port } ]
    /\ UNCHANGED << ctl, la, leave_call_event, sub, obs, screen_calls, seen,
                    fn, active_containers, containers_settings,
                    occupied_ports, log_streaming_threads, containers,
                    launches >>

\* `self._release_port(int(host_port["HostPort"]))` for the ports read
CleanupRelease ==
    /\ \E t \in CleanupThreads :
        /\ threads[t].pc = "cleanup_release"
        /\ occupied_ports' = occupied_ports \ threads[t].ports
        /\ threads' = [ threads EXCEPT ![t].pc = "cleanup_remove" ]
    /\ UNCHANGED << ctl, la, leave_call_event, sub, obs, screen_calls, seen,
                    fn, active_containers, containers_settings,
                    log_streaming_threads, containers, launches >>

\* `with suppress(NotFound): container.remove(force=True)`
CleanupRemove ==
    /\ \E t \in CleanupThreads :
        /\ threads[t].pc = "cleanup_remove"
        /\ containers' =
              [ containers EXCEPT ![threads[t].container].status = "removed" ]
        /\ threads' = [ threads EXCEPT ![t].pc = "cleanup_finally" ]
    /\ UNCHANGED << ctl, la, leave_call_event, sub, obs, screen_calls, seen,
                    fn, active_containers, containers_settings,
                    occupied_ports, log_streaming_threads, launches >>

\* finally: `del self.active_containers[user_id]` when the key is there,
\* and the return to stop_session or to the loop of the monitor
CleanupFinally ==
    /\ \E t \in CleanupThreads :
        /\ threads[t].pc = "cleanup_finally"
        /\ active_containers' =
              [ active_containers EXCEPT ![threads[t].user_id] = 0 ]
        /\ threads' =
              [ threads EXCEPT ![t] =
                   IF t = "monitor"
                   THEN [ IdleThread EXCEPT
                            !.pc = "monitor_next",
                            !.user_ids = threads[t].user_ids ]
                   ELSE IdleThread ]
    /\ UNCHANGED << ctl, la, leave_call_event, sub, obs, screen_calls, seen,
                    fn, containers_settings, occupied_ports,
                    log_streaming_threads, containers, launches >>

\* the worker in a container ends (worker_main exits): status 'exited'
ContainerExits ==
    /\ pc = "manager"
    /\ \E c \in 1..Len(containers) :
        /\ containers[c].status = "running"
        /\ containers' = [ containers EXCEPT ![c].status = "exited" ]
    /\ UNCHANGED << ctl, la, leave_call_event, sub, obs, screen_calls, seen,
                    fn, active_containers, containers_settings,
                    occupied_ports, log_streaming_threads, threads,
                    launches >>

\* a container is removed from outside the manager: reload() and stop()
\* raise NotFound from then on
ContainerRemoved ==
    /\ pc = "manager"
    /\ \E c \in 1..Len(containers) :
        /\ containers[c].status # "removed"
        /\ containers' = [ containers EXCEPT ![c].status = "removed" ]
    /\ UNCHANGED << ctl, la, leave_call_event, sub, obs, screen_calls, seen,
                    fn, active_containers, containers_settings,
                    occupied_ports, log_streaming_threads, threads,
                    launches >>

InitDocker ==
    /\ gm_link = FALSE
    /\ pc = "manager"
    /\ ControllerInit
    /\ fn_call = NoCall
    /\ fn_result = "none"
    /\ DockerManagerInit

NextDocker ==
    \/ LaunchContainerCall
    \/ LaunchCheckUser
    \/ LaunchFindPort
    \/ LaunchRun
    \/ LaunchLogThread
    \/ LaunchSetLaunched
    \/ LaunchSetActive
    \/ StopSession
    \/ MonitorSnapshot
    \/ MonitorCheck
    \/ CleanupLogThreads
    \/ CleanupSettings
    \/ CleanupReload
    \/ CleanupRelease
    \/ CleanupRemove
    \/ CleanupFinally
    \/ ContainerExits
    \/ ContainerRemoved

SpecDocker == InitDocker /\ [][NextDocker]_vars






(***************************************************************************)
(* Properties                                                              *)
(***************************************************************************)

\* C1: with a classifier that keeps reporting "not logged in",
\* GoogleLoginState is re-entered from itself exactly MAX_RETRIES (4) times
\* and then the machine goes to Stop: there is never a fifth consecutive
\* re-entry of GoogleLoginState.
C1_LoginRetriesBounded ==
    ~(current_state = "GoogleLoginState"
      /\ selfRun > GoogleLoginState_MAX_RETRIES)

\* the largest retry budget the program configures
LargestBudget == Max(RESTART_TRIES, WAIT_APPROVAL_TRIES)

\* C2: the navigation phase makes finitely many state entries because every
\* state that can recur is limited by a retry budget: no state is entered
\* from itself more often in a row than the largest budget allows.
C2_SelfTransitionsBounded == selfRun <= LargestBudget

TooManyRetries ==
    { "Too many retries in LandingPageState",
      "Too many retries in JoinCurrentMeetingState" }

LandingOrJoin == { "LandingPageState", "JoinCurrentMeetingState" }

\* C3: restart_tries goes down by one on every entry to LandingPageState or
\* JoinCurrentMeetingState, there are never more than RESTART_TRIES (7) such
\* entries, and the entry that brings the counter to zero goes to Stop with
\* a 'Too many retries ...' error whatever the classifier reports.
C3_GlobalRetryBudget ==
    /\ [](/\ lj_entries <= RESTART_TRIES
          /\ restart_tries >= 0
          /\ restart_tries =
               RESTART_TRIES - lj_entries
               + (IF pc = "enter" /\ current_state \in LandingOrJoin
                  THEN 1 ELSE 0))
    /\ [][(restart_tries' = 0 /\ restart_tries # 0 /\ pc' # "boundary")
            => (/\ current_state' = "StopState"
                /\ pc' = "enter"
                /\ error_msg' \in TooManyRetries)]_vars

C3_Witness ==
    /\ restart_tries = 0
    /\ lj_entries = RESTART_TRIES
    /\ current_state = "StopState"
    /\ error_msg \in TooManyRetries

\* C4: JoinCurrentMeetingAwaitApprovalState re-enters itself at most
\* wait_approval_tries (7) times; when the counter is used up the machine
\* stops waiting instead of entering the approval state again.
C4_ApprovalWaitBounded ==
    ~(current_state = "JoinCurrentMeetingAwaitApprovalState"
      /\ selfRun > WAIT_APPROVAL_TRIES)

\* C5: whenever a retry budget has run out, the session ends in Stop with a
\* non-empty error_msg and StopState reports status 'error'.
C5_ExhaustionEndsInError ==
    (pc = "exited" /\ exhausted # "none")
        => (error_msg # "None" /\ stop_notified)

\* C6: once the running assistant has set its leave signal, the next
\* monitor iteration classified as active call performs the leave sequence
\* and leaves the loop.  (A step taken in the loop with the signal already
\* set is a poll; it saw an active call iff it continued without counting a
\* 'getting ready', or it ended the loop with a leave.)
C6_LeaveRequestHonoured ==
    [][(/\ pc = "monitor"
        /\ leave_call_event
        /\ \/ pc' = "monitor"
                /\ getting_ready_error_count' = getting_ready_error_count
           \/ monitor_exit' \in {"leave", "alone"})
         => (leave_calls' = leave_calls + 1 /\ pc' # "monitor")]_vars

\* C7: with no leave signal, when every poll of the monitor so far
\* reported an active call with alone_in_the_call = true, the leave sequence
\* runs on the 120th poll and on none of the first 119, it runs once, and
\* the loop ends with it.
C7_IsolationLeave ==
    /\ []((pc = "monitor" /\ only_alone)
            => (leave_calls = 0 /\ alone_in_the_call_timer < ALONE_LIMIT))
    /\ []((monitor_exit = "alone") => (leave_calls = 1 /\ pc # "monitor"))
    /\ [][(/\ pc = "monitor"
           /\ ~sub_leave_call_event
           /\ leave_call_event' = leave_call_event
           /\ only_alone /\ only_alone')
            => (/\ (leave_calls' = leave_calls + 1)
                      <=> (alone_in_the_call_timer + 1 = ALONE_LIMIT)
                /\ (pc' = "monitor")
                      <=> (alone_in_the_call_timer + 1 < ALONE_LIMIT)
                /\ (pc' = "monitor")
                      => alone_in_the_call_timer' = alone_in_the_call_timer + 1)]_vars

C7_Witness ==
    /\ monitor_exit = "alone"
    /\ only_alone
    /\ leave_calls = 1
    /\ sub_current_state = "MeetingSubMachineStop"

\* C8: the isolation leave is triggered only when the 120 most recent
\* active-call classifications all said alone: a run of alone
\* classifications that a not-alone one interrupted does not count.
C8_ConsecutiveAloneOnly ==
    (monitor_exit = "alone") => ~alone_interrupted

\* C9: once StopState is entered the driver is quit exactly once, stopped
\* is true and nothing else happens in the session: no transition, no
\* classifier call, no resumed LandingPageState / JoinCurrentMeetingState
\* tail.
C9_StopIsTerminal ==
    /\ [](/\ stop_entries <= 1
          /\ (stop_entries = 1)
               => (/\ pc = "exited"
                   /\ driver_quits = 1
                   /\ stopped
                   /\ current_state = "StopState"
                   /\ frames = << >>))
    /\ [][(stop_entries >= 1) => UNCHANGED vars]_vars

\* Stop was entered below at least two suspended frames
C9_Witness ==
    /\ pc = "exited"
    /\ stop_entries = 1
    /\ lj_entries >= 2
    /\ driver_quits = 1

\* C10: every session that ends through Stop has sent a final status
\* notification from StopState and has released the driver, with or
\* without an error message.
C10_FinalNotification ==
    (pc = "exited") => (stop_notified /\ driver_quits >= 1)

\* C11: a classifier call that raises is never handled by the state it was
\* made in, the in-call monitor loop included: the exception reaches the
\* session boundary of worker_main.main, which reports status 'error' and
\* quits the driver.
C11_ClassifierFailureIsFatal ==
    /\ (monitor_exit = "exception") => (pc = "boundary")
    /\ (pc = "boundary")
         => (/\ Len(notified) > 0
             /\ notified[Len(notified)].status = "error"
             /\ driver_quits >= 1)

\* the strategy of admit_participant that a call of the log starts:
\* 1 (a) the 'admit_view.png' template, 2 (b) the admit notification,
\* 3 (c) the view-participants control, 4 (d) the per-person admit control,
\* 5 (e) the admit-all panel control, 6 (f) the catch-all admit control;
\* 0 for a call that starts none
StrategyOf(call) ==
    IF call.op = "click_icon_with_shift" /\ call.target = "admit_view.png"
    THEN 1
    ELSE IF call.op # "find_element" THEN 0
    ELSE IF call.target = "someone_wants_to_join_this_call_admit_button" THEN 2
    ELSE IF call.target = "meet_callcontrol_viewparticipantsbutton" THEN 3
    ELSE IF call.target = "people_admit_button" THEN 4
    ELSE IF call.target = "people_popup_admit_all_button" THEN 5
    ELSE IF call.target = "admit_all_admit_button" THEN 6
    ELSE 0

\* the strategies a log went through, in the order of the log
StrategiesOf(calls) ==
    LET Starts(c) == c # 0
    IN  SelectSeq([ i \in 1..Len(calls) |-> StrategyOf(calls[i]) ], Starts)

AdmitReturned == fn_call.fn = "admit_participant" /\ fn_result # "pending"

\* C12: every call of admit_participant attempts the six strategies (a) to
\* (f) in this order; a later strategy is attempted whether or not an
\* earlier one reported success.
C12_AdmitCascadeRunsEveryStrategy ==
    AdmitReturned => StrategiesOf(screen_calls) = << 1, 2, 3, 4, 5, 6 >>

\* the lookups of admit_participant on the elements of the call
AdmitNotificationFound ==
    find_element(fn_call.elements,
                 "someone_wants_to_join_this_call_admit_button", {})
ViewParticipantsFound ==
    find_element(fn_call.elements, "meet_callcontrol_viewparticipantsbutton",
                 ViewParticipantsAliases)
PersonAdmitFound == find_element(fn_call.elements, "people_admit_button", {})
AdmitAllFound ==
    find_element(fn_call.elements, "people_popup_admit_all_button",
                 { "people_admit_all_button", "people_admit_all" })

\* the case of scenario C: the template fails, the three earlier controls
\* do not resolve above their thresholds (80, 60, 66), the admit-all panel
\* control resolves with a confidence of at least 75
ScenarioC ==
    /\ AdmitReturned
    /\ ~click_icon_with_shift_result("admit_view.png", fn_call.screen)
    /\ ~(AdmitNotificationFound.element # 0
         /\ AdmitNotificationFound.confidence >= 8000)
    /\ ~(ViewParticipantsFound.element # 0
         /\ ViewParticipantsFound.confidence >= 6000)
    /\ ~(PersonAdmitFound.element # 0 /\ PersonAdmitFound.confidence > 6600)
    /\ AdmitAllFound.element # 0
    /\ AdmitAllFound.confidence >= 7500

\* C13: in scenario C admit_participant clicks the resolved admit-all panel
\* element at its centre, then tries the 'cancel_admit.png' template, and
\* returns True when that template call succeeds.
C13_ScenarioC ==
    ScenarioC =>
        /\ \E i \in 1..(Len(screen_calls) - 1) :
              /\ screen_calls[i]
                   = click(fn_call.elements[AdmitAllFound.element])
              /\ screen_calls[i + 1].op = "click_icon_with_shift"
              /\ screen_calls[i + 1].target = "cancel_admit.png"
              /\ \A k \in 1..(i - 1) : screen_calls[k].op # "click"
        /\ click_icon_with_shift_result("cancel_admit.png", fn_call.screen)
              => fn_result = "True"

\* scenario C with a control that only a fallback prefix resolves (75.86)
C13_Witness ==
    /\ ScenarioC
    /\ AdmitAllFound.confidence = 7586
    /\ fn_result = "True"
    /\ Len(screen_calls) = 7

LeaveReturned == fn_call.fn = "leave_call" /\ fn_result # "pending"

\* the labels that resolve the leave control with at least 70: the label
\* itself, its aliases, and every label that contains the one fallback
\* prefix long enough (26 of 33 characters)
ResolvesLeave(label) ==
    \/ label \in { "meet_call_control_end_call_button",
                   "meet_leave_call_button",
                   "meet_call_control_leave_call_button" }
    \/ IsSubstring("meet_call_control_end_call", label)

\* C18: leave_call clicks an element iff the leave control was resolved
\* with confidence >= 70, the element clicked is the resolved one, and the
\* 'leave_call.png' template click is attempted, last and once, in every
\* leave sequence.
C18_LeaveGating ==
    LeaveReturned =>
        LET n == Len(screen_calls)
            clicks == { i \in 1..n : screen_calls[i].op = "click" }
            resolved == { i \in 1..Len(fn_call.elements) :
                             ResolvesLeave(fn_call.elements[i].label) }
        IN  /\ (clicks # {}) <=> (resolved # {})
            /\ Cardinality(clicks) <= 1
            /\ \A i \in clicks :
                  \E k \in resolved :
                      screen_calls[i] = click(fn_call.elements[k])
            /\ screen_calls[n].op = "click_icon"
            /\ screen_calls[n].target = "leave_call.png"
            /\ Cardinality({ i \in 1..n : screen_calls[i].op = "click_icon" }) = 1

\* a leave that clicked a control resolved by the fallback prefix, with the
\* template not on the screen
C18_Witness ==
    /\ LeaveReturned
    /\ Len(screen_calls) = 3
    /\ screen_calls[1].x = 7879
    /\ screen_calls[2].op = "click"
    /\ ~screen_calls[3].clicked

\* the first element of the classification `seen` that carries one of the
\* labels
FirstSeen(labels) ==
    seen.elements[CHOOSE i \in 1..Len(seen.elements) :
                     /\ seen.elements[i].label \in labels
                     /\ \A k \in 1..(i - 1) :
                           seen.elements[k].label \notin labels]

\* the calls are exactly one click, at the centre of the box
\* [y_min, x_min, y_max, x_max]
OneClickAtCentre(calls, box_2d) ==
    /\ Len(calls) = 1
    /\ calls[1].op = "click"
    /\ calls[1].clicked
    /\ 2 * calls[1].x \in { box_2d[2] + box_2d[4] - 1, box_2d[2] + box_2d[4] }
    /\ 2 * calls[1].y \in { box_2d[1] + box_2d[3] - 1, box_2d[1] + box_2d[3] }

\* a step of the enter() of the given state class that got a classification
EnterStep(cls) ==
    /\ pc = "enter"
    /\ current_state = cls
    /\ pc' # "boundary"
    /\ leave_call_event' = leave_call_event

\* C14 (scenario A): LandingPageState of a host session whose retry budget
\* is not used up by this entry, classified as the initial dashboard of a
\* logged-in account with a 'new_meeting_button' element, issues exactly
\* one click, at the centre of the first such element, and enters
\* CreateNewMeetingState.
C14_ScenarioA ==
    [][(/\ EnterStep("LandingPageState")
        /\ ~gm_link
        /\ restart_tries > 1
        /\ seen'.state = "google_meet_initial_page")
         => (/\ OneClickAtCentre(screen_calls',
                                 FirstSeen({"new_meeting_button"})'.box_2d)
             /\ current_state' = "CreateNewMeetingState"
             /\ pc' = "enter")]_vars

\* the button came second in the element list, and once more after that
C14_Witness ==
    /\ current_state = "CreateNewMeetingState"
    /\ pc = "enter"
    /\ seen.state = "google_meet_initial_page"
    /\ Len(seen.elements) = 3
    /\ screen_calls = << click(seen.elements[2]) >>
    /\ screen_calls # << click(seen.elements[3]) >>

\* C15 (scenario B): PermitMicrophone, classified as the permission screen
\* with a 'use_microphone_and_camera' or 'allow_while_visiting_the_site'
\* element, clicks that element and enters PermitMicrophone again;
\* classified as anything but the permission screen it clicks nothing and
\* enters JoinCurrentMeetingState when a meeting link is set, InMeeting
\* otherwise.
C15_ScenarioB ==
    [][EnterStep("PermitMicrophone")
         => (/\ (seen'.state = "google_meet_allow_microphone")
                  => (/\ OneClickAtCentre(
                            screen_calls',
                            FirstSeen({"use_microphone_and_camera",
                                       "allow_while_visiting_the_site"})'.box_2d)
                      /\ current_state' = "PermitMicrophone"
                      /\ pc' = "enter")
             /\ (seen'.state = "other")
                  => (/\ screen_calls' = << >>
                      /\ pc' = "enter"
                      /\ current_state' = IF gm_link
                                          THEN "JoinCurrentMeetingState"
                                          ELSE "InMeeting"))]_vars

\* the permission screen was answered twice in a row, the second time by
\* the 'allow_while_visiting_the_site' control
C15_Witness ==
    /\ current_state = "PermitMicrophone"
    /\ pc = "enter"
    /\ selfRun >= 2
    /\ seen.state = "google_meet_allow_microphone"
    /\ seen.elements[1].label = "allow_while_visiting_the_site"
    /\ Len(screen_calls) = 1

\* C16: the monitor tolerates three 'getting ready' classifications; the
\* fourth one ends the loop toward Stop with an error recorded for the
\* session.
C16_GettingReadyTolerance ==
    /\ getting_ready_error_count <= GETTING_READY_TOLERANCE + 1
    /\ (monitor_exit = "getting_ready")
         => (/\ pc # "monitor"
             /\ sub_current_state = "MeetingSubMachineStop"
             /\ (sub_error_msg # "None" \/ error_msg # "None"))

\* C17: a monitor iteration classified as neither active call nor 'getting
\* ready' makes no click, records an error message that names the page
\* state, and sets the sub-machine's Stop state.
C17_UnexpectedStateInCall ==
    [][(pc = "monitor" /\ seen'.state # "none")
         => (/\ screen_calls' = << >>
             /\ sub_error_msg'
                  = "Unknown page state " \o seen'.state
                    \o ". Closing connections!"
             /\ monitor_exit' = "unknown"
             /\ sub_current_state' = "MeetingSubMachineStop"
             /\ pc' = "sub_enter")]_vars

\* the call page turned into the 'call finishing' page
C17_Witness ==
    /\ seen.state = "google_meet_call_finishing_page"
    /\ sub_current_state = "MeetingSubMachineStop"
    /\ pc = "sub_enter"
    /\ monitor_exit = "unknown"
    /\ leave_calls = 0

\* the transition graph as specified: the targets of every state
SpecifiedEdges ==
    ({ "LandingPageState" }
        \X { "GoogleLoginState", "CreateNewMeetingState",
             "JoinCurrentMeetingState" })
    \cup ({ "GoogleLoginState" }
        \X { "GoogleLoginState", "LandingPageState",
             "JoinCurrentMeetingState", "StopState" })
    \cup ({ "CreateNewMeetingState" } \X { "InMeeting" })
    \cup ({ "JoinCurrentMeetingState" }
        \X { "JoinCurrentMeetingAwaitApprovalState", "PermitMicrophone",
             "JoinCurrentMeetingState", "LandingPageState", "StopState" })
    \cup ({ "JoinCurrentMeetingAwaitApprovalState" }
        \X { "JoinCurrentMeetingAwaitApprovalState", "InMeeting",
             "PermitMicrophone" })
    \cup ({ "PermitMicrophone" }
        \X { "PermitMicrophone", "LandingPageState", "InMeeting",
             "JoinCurrentMeetingState" })
    \cup ({ "InMeeting" } \X { "InMeeting", "StopState" })

\* the transitions the controller takes besides
ExtraEdges ==
    { << "LandingPageState", "LandingPageState" >>,
      << "LandingPageState", "StopState" >>,
      << "CreateNewMeetingState", "LandingPageState" >>,
      << "CreateNewMeetingState", "StopState" >>,
      << "JoinCurrentMeetingState", "GoogleLoginState" >>,
      << "JoinCurrentMeetingAwaitApprovalState", "StopState" >>,
      << "InMeeting", "LandingPageState" >>,
      << "InMeeting", "PermitMicrophone" >> }

\* a step that is a set_state call of the controller: the transition it
\* logs goes from current_state to current_state'
SetStateStep ==
    /\ pc' = "enter"
    /\ pc # "run"
    /\ leave_call_event' = leave_call_event

\* C19 as stated: every transition the controller takes is an edge of the
\* specified graph (LandingPage to GoogleLogin, CreateNewMeeting or
\* JoinCurrentMeeting only; CreateNewMeeting to InMeeting only; ...).
C19_SpecifiedGraphOnly ==
    [][SetStateStep
         => << current_state, current_state' >> \in SpecifiedEdges]_vars

\* C19 as amended: every transition the controller takes is an edge of the
\* specified graph or one of LandingPage -> LandingPage, LandingPage ->
\* Stop, CreateNewMeeting -> LandingPage, CreateNewMeeting -> Stop,
\* JoinCurrentMeeting -> GoogleLogin, JoinCurrentMeetingAwaitApproval ->
\* Stop, InMeeting -> LandingPage, InMeeting -> PermitMicrophone.
C19_TransitionGraph ==
    [][SetStateStep
         => << current_state, current_state' >>
               \in SpecifiedEdges \cup ExtraEdges]_vars

\* a host session in PermitMicrophone: it got there from InMeeting
C19_Witness ==
    /\ ~gm_link
    /\ current_state = "PermitMicrophone"
    /\ pc = "enter"
    /\ frames # << >>

\* C20: leave_call_event is unset when the session starts, it only ever
\* goes from unset to set, by a step of the assistant that touches nothing
\* of the controller, and no step clears it (nor the signal the monitor
\* reads).
C20_LeaveSignalMonotonic ==
    /\ []((pc = "run") => (~leave_call_event /\ ~sub_leave_call_event))
    /\ [][/\ leave_call_event => leave_call_event'
          /\ sub_leave_call_event => sub_leave_call_event'
          /\ (leave_call_event' # leave_call_event)
                => (la_running /\ UNCHANGED << ctl, la, sub >>)]_vars

\* the signal was set during the call and is still set when the session
\* has ended
C20_Witness ==
    /\ leave_call_event
    /\ pc = "exited"
    /\ sub_stop_event

(***************************************************************************)
(* ControlFinder (specification SpecFinder)                                *)
(***************************************************************************)
FindReturned == pc = "returned" /\ fn_call.fn = "find_element"

FallbacksReturned == pc = "returned" /\ fn_call.fn = "_generate_fallbacks"

\* base_label and the aliases of the call
HighPriority == { fn_call.base_label } \cup fn_call.aliases

\* some element's label equals base_label or an alias
ExactlyLabelled ==
    \E i \in 1..Len(fn_call.elements) :
        fn_call.elements[i].label \in HighPriority

\* the proper prefixes of the label's underscore-separated parts that have
\* at least two parts: what stands before a separator that is not the first
SegmentPrefixes(base_label) ==
    { SubSeq(base_label, 1, k - 1) :
        k \in { q \in Underscores(base_label) :
                  \E j \in Underscores(base_label) : j < q } }

\* the prefixes that the label of some element contains
ContainedPrefixes ==
    { f \in SegmentPrefixes(fn_call.base_label) :
        \E i \in 1..Len(fn_call.elements) :
            IsSubstring(f, fn_call.elements[i].label) }

\* C23: find_element returns confidence 100.0 iff some element's label
\* equals base_label or one of the aliases, and then the element returned
\* is one with such a label.
C23_ExactMatch ==
    FindReturned =>
        /\ (fn_result.confidence = 10000) <=> ExactlyLabelled
        /\ ExactlyLabelled =>
              /\ fn_result.element \in 1..Len(fn_call.elements)
              /\ fn_call.elements[fn_result.element].label \in HighPriority

\* an alias is matched by the second of three elements, whose first one
\* contains a fallback prefix of the base label
C23_Witness ==
    /\ FindReturned
    /\ fn_call.base_label = "a_b_c_d"
    /\ Len(fn_call.elements) = 3
    /\ fn_call.elements[1].label = "a_b_x"
    /\ fn_call.elements[2].label = "b_c"
    /\ "b_c" \in fn_call.aliases
    /\ fn_result.element = 2
    /\ fn_result.confidence = 10000

\* C24: when no label equals base_label or an alias and some element's
\* label contains a fallback prefix, the element returned is the first
\* one in list order that contains the longest contained prefix, and the
\* confidence is len(prefix) / len(base_label) * 100 rounded to two
\* decimals, strictly between 0 and 100.
C24_FallbackMatch ==
    (FindReturned /\ ~ExactlyLabelled /\ ContainedPrefixes # {}) =>
        LET prefix == CHOOSE f \in ContainedPrefixes :
                          \A g \in ContainedPrefixes : Len(g) <= Len(f)
            i == fn_result.element
            d == Len(fn_call.base_label)
            \* distance of the confidence from the exact quotient, times d
            off == fn_result.confidence * d - 10000 * Len(prefix)
        IN  /\ i \in 1..Len(fn_call.elements)
            /\ IsSubstring(prefix, fn_call.elements[i].label)
            /\ \A k \in 1..(i - 1) :
                  ~IsSubstring(prefix, fn_call.elements[k].label)
            /\ 2 * off <= d /\ 2 * off >= 0 - d
            /\ fn_result.confidence > 0
            /\ fn_result.confidence < 10000

\* of a_b_c_d the prefix a_b_c is in no label and a_b is in the second and
\* third: 3 / 7 * 100 = 42.857... is rounded up to 42.86
C24_Witness ==
    /\ FindReturned
    /\ fn_call.base_label = "a_b_c_d"
    /\ fn_call.aliases = {}
    /\ Len(fn_call.elements) = 3
    /\ fn_call.elements[1].label = "x"
    /\ fn_call.elements[2].label = "a_b_x"
    /\ fn_call.elements[3].label = "a_b"
    /\ fn_result.element = 2
    /\ fn_result.confidence = 4286

\* C25: _generate_fallbacks returns exactly the proper prefixes of the
\* label's underscore-separated parts that have at least two parts,
\* longest first; never the label itself, never a single part, and nothing
\* for a label of one or two parts.
C25_FallbackGeneration ==
    FallbacksReturned =>
        LET base_label == fn_call.base_label
            n == Len(fn_result)
        IN  /\ { fn_result[j] : j \in 1..n } = SegmentPrefixes(base_label)
            /\ \A j \in 1..n : \A k \in (j + 1)..n :
                  Len(fn_result[j]) > Len(fn_result[k])
            /\ \A j \in 1..n :
                  /\ fn_result[j] # base_label
                  /\ Underscores(fn_result[j]) # {}
            /\ Cardinality(Underscores(base_label)) <= 1 => n = 0
            /\ base_label = "a_b_c_d" => fn_result = << "a_b_c", "a_b" >>

\* a label of five parts gives three fallbacks
C25_Witness ==
    /\ FallbacksReturned
    /\ fn_call.base_label = "a_b_c_d_e"
    /\ fn_result = << "a_b_c_d", "a_b_c", "a_b" >>

\* C26: find_element returns (None, 0.0) exactly when no label equals
\* base_label or an alias and no label contains a generated fallback; the
\* element is None iff the confidence is 0.0; self.elements is unchanged.
C26_NoMatch ==
    FindReturned =>
        /\ (fn_result.element = 0 /\ fn_result.confidence = 0)
              <=> (~ExactlyLabelled /\ ContainedPrefixes = {})
        /\ (fn_result.element = 0) <=> (fn_result.confidence = 0)
        /\ fn_result.elements = fn_call.elements

\* nothing found although the labels share parts with the base label: a is
\* a single part and b_c is no prefix of a_b_c
C26_Witness ==
    /\ FindReturned
    /\ fn_call.base_label = "a_b_c"
    /\ fn_call.aliases = { "x" }
    /\ Len(fn_call.elements) = 2
    /\ fn_call.elements[1].label = "a"
    /\ fn_call.elements[2].label = "b_c"
    /\ fn_result.element = 0
    /\ fn_result.confidence = 0
    /\ fn_result.elements = fn_call.elements

\* C30: when one element's label equals base_label and another element's
\* label equals an alias, find_element returns the one labelled
\* base_label, whatever the order of the list.
C30_BaseBeforeAlias ==
    (/\ FindReturned
     /\ \E i \in 1..Len(fn_call.elements) :
           fn_call.elements[i].label = fn_call.base_label
     /\ \E i \in 1..Len(fn_call.elements) :
           /\ fn_call.elements[i].label \in fn_call.aliases
           /\ fn_call.elements[i].label # fn_call.base_label)
    => /\ fn_result.element \in 1..Len(fn_call.elements)
       /\ fn_call.elements[fn_result.element].label = fn_call.base_label

\* C29: the monitor's alone counter is never reset while the loop runs; a
\* not-alone active-call classification between alone ones leaves it as it
\* is, and the loop leaves the call for being alone on the classification
\* that brings the count to 120.
C29_AloneCounterPersists ==
    [][ /\ (pc = "monitor" /\ pc' = "monitor") =>
              /\ alone_in_the_call_timer' >= alone_in_the_call_timer
              /\ alone_in_the_call_timer' <= alone_in_the_call_timer + 1
              /\ (alone_interrupted' /\ ~alone_interrupted) =>
                    /\ alone_in_the_call_timer > 0
                    /\ alone_in_the_call_timer' = alone_in_the_call_timer
        /\ (pc = "monitor" /\ monitor_exit' = "alone") =>
              alone_in_the_call_timer = ALONE_LIMIT - 1
        /\ (pc = "monitor" /\ pc' = "monitor") =>
              alone_in_the_call_timer' < ALONE_LIMIT ]_vars

\* the call was left for being alone although a not-alone classification
\* had come between the alone ones
C29_Witness ==
    /\ monitor_exit = "alone"
    /\ alone_interrupted
    /\ leave_calls = 1

(***************************************************************************)
(* GMPageParserAIv3.run (specification SpecParser)                         *)
(***************************************************************************)
RunReturned == pc = "returned" /\ fn_call.fn = "run"

\* no capital letter and no space in the label
IsNormalised(label) ==
    \A k \in 1..Len(label) :
        /\ SubSeq(label, k, k) # " "
        /\ \A j \in 1..Len(UpperCase) :
              SubSeq(UpperCase, j, j) # SubSeq(label, k, k)

\* C21: every element label of a classification, which for an active call
\* is what the in-call monitor hands to ControlFinder, is in lower case
\* with underscores for spaces, whether the elements came from the
\* schema-constrained or from the free-form answer.
C21_LabelsNormalised ==
    RunReturned =>
        \A i \in 1..Len(fn_result.elements) :
            IsNormalised(fn_result.elements[i].label)

\* v is a whole number nearest to rel / 1000 * dimension
Nearest(v, rel, dimension) == 2 * Abs(1000 * v - rel * dimension) <= 1000

\* v is rel / 1000 * dimension cut toward zero; where that product is
\* whole, v may be the whole number below it
Truncated(v, rel, dimension) ==
    /\ (v >= 0 /\ rel >= 0) \/ (v <= 0 /\ rel <= 0)
    /\ 1000 * Abs(v) <= Abs(rel * dimension)
    /\ Abs(rel * dimension) <= 1000 * Abs(v) + 1000
    /\ Abs(rel * dimension) = 1000 * Abs(v) + 1000 =>
          << Abs(rel), dimension >> \in FloatBelowWhole

\* C27: every box of the classification returned has y_min <= y_max and
\* x_min <= x_max.
C27_BoxOrdered ==
    RunReturned =>
        \A i \in 1..Len(fn_result.elements) :
            LET box == fn_result.elements[i].box_2d
            IN  box[1] <= box[3] /\ box[2] <= box[4]

\* both pairs of endpoints came the wrong way round
C27_Witness ==
    /\ RunReturned
    /\ fn_call.image_size = << 1024, 768 >>
    /\ Len(fn_call.elements) = 1
    /\ fn_call.elements[1].box_2d = << 999, 501, 290, 0 >>
    /\ fn_result.elements[1].box_2d = << 222, 0, 767, 513 >>

\* C28 as stated: each coordinate is round(rel / 1000 * dimension), y with
\* the height and x with the width of the image; the box holds the two
\* values of each axis in either order.
C28_RoundedScaling ==
    RunReturned =>
        \A i \in 1..Len(fn_result.elements) :
            LET rel == fn_call.elements[i].box_2d
                box == fn_result.elements[i].box_2d
                width == fn_call.image_size[1]
                height == fn_call.image_size[2]
            IN  /\ \/ Nearest(box[1], rel[1], height)
                      /\ Nearest(box[3], rel[3], height)
                   \/ Nearest(box[3], rel[1], height)
                      /\ Nearest(box[1], rel[3], height)
                /\ \/ Nearest(box[2], rel[2], width)
                      /\ Nearest(box[4], rel[4], width)
                   \/ Nearest(box[4], rel[2], width)
                      /\ Nearest(box[2], rel[4], width)

\* C28 (amended): each coordinate is int(rel / 1000 * dimension), the
\* product cut toward zero, y with the height and x with the width of the
\* image; the box holds the two values of each axis in either order.
C28_TruncatedScaling ==
    RunReturned =>
        \A i \in 1..Len(fn_result.elements) :
            LET rel == fn_call.elements[i].box_2d
                box == fn_result.elements[i].box_2d
                width == fn_call.image_size[1]
                height == fn_call.image_size[2]
            IN  /\ \/ Truncated(box[1], rel[1], height)
                      /\ Truncated(box[3], rel[3], height)
                   \/ Truncated(box[3], rel[1], height)
                      /\ Truncated(box[1], rel[3], height)
                /\ \/ Truncated(box[2], rel[2], width)
                      /\ Truncated(box[4], rel[4], width)
                   \/ Truncated(box[4], rel[2], width)
                      /\ Truncated(box[2], rel[4], width)

\* 501 / 1000 * 768 = 384.768 becomes 384 and 999 / 1000 * 1024 = 1022.976
\* becomes 1022
C28_Witness ==
    /\ RunReturned
    /\ fn_call.image_size = << 1024, 768 >>
    /\ Len(fn_call.elements) = 1
    /\ fn_call.elements[1].box_2d = << 501, 999, 1000, 1000 >>
    /\ fn_result.elements[1].box_2d = << 384, 1022, 768, 1024 >>

(***************************************************************************)
(* ScreenActions (specification SpecActions)                               *)
(***************************************************************************)
\* C22: no ScreenActions method lets an exception out, and click_icon and
\* click_icon_with_shift return True only when the template was located
\* and the click was made; when the template is not on the screen or the
\* click fails they return False and nothing is clicked.
C22_ExecutorNeverFails ==
    pc = "returned" =>
        /\ fn_result # "raised"
        /\ fn_call.fn \in { "click_icon", "click_icon_with_shift" } =>
              LET located == fn_call.icon \in fn_call.screen.shown
                  clicked == \E i \in 1..Len(screen_calls) :
                                 screen_calls[i].clicked
              IN  /\ fn_result = "True" => (located /\ clicked)
                  /\ (~located \/ fn_call.click_raises) =>
                        (fn_result = "False" /\ ~clicked)

(***************************************************************************)
(* InMeeting and the in-call sub-machine (specification Spec)              *)
(***************************************************************************)
\* C31: when InMeeting classifies the 'getting ready' page it re-enters
\* InMeeting with retry + 1 while retry < MAX_RETRIES, and with retry at
\* MAX_RETRIES it records an error message and transitions to Stop.
C31_InMeetingGettingReadyRetry ==
    [][ (/\ pc = "enter" /\ current_state = "InMeeting"
         /\ seen'.state = "google_meet_meeting_connection_page_getting_ready")
        => IF retry < InMeeting_MAX_RETRIES
           THEN current_state' = "InMeeting" /\ retry' = retry + 1
           ELSE current_state' = "StopState" /\ error_msg' # "None" ]_vars

\* C32: once InMeeting has handed control to the sub-machine,
\* MeetingSubMachineStart.enter transitions to the in-call monitor, and the
\* sub-machine gets to MeetingSubMachineStop from the monitor only.
C32_SubMachineStart ==
    [][ /\ (/\ pc = "sub_enter" /\ sub_current_state = "MeetingSubMachineStart"
            /\ pc' \notin { "sub_enter", "boundary" })
           => (sub_current_state' = "MeetingSubMachineInMeeting"
               /\ pc' = "monitor")
        /\ (sub_current_state' = "MeetingSubMachineStop"
            /\ sub_current_state # "MeetingSubMachineStop")
           => (sub_current_state = "MeetingSubMachineInMeeting"
               /\ pc = "monitor") ]_vars

\* a step of the monitor loop (the assistant's tool call is no iteration)
MonitorIteration == pc = "monitor" /\ leave_call_event' = leave_call_event

\* the templates and labels that only admit_participant uses
AdmitTargets ==
    { "admit_view.png", "admit_all.png", "deny_all_admit_all.png",
      "cancel_admit.png", "view.png",
      "someone_wants_to_join_this_call_admit_button",
      "meet_callcontrol_viewparticipantsbutton", "people_admit_button",
      "people_popup_admit_all_button", "admit_all_admit_button" }

\* C33: in a session started with a meeting link the monitor makes no call
\* of admit_participant: an iteration that goes on makes no call at all,
\* and one that leaves makes the calls of leave_call only; in a host
\* session every active-call iteration that goes on starts the admit
\* cascade, whose first call is the 'admit_view.png' template click.
C33_AdmissionHostOnly ==
    [][ MonitorIteration =>
          /\ gm_link =>
                /\ pc' = "monitor" => screen_calls' = << >>
                /\ \A i \in 1..Len(screen_calls') :
                      screen_calls'[i].target \notin AdmitTargets
                /\ Cardinality({ i \in 1..Len(screen_calls') :
                                   screen_calls'[i].op = "click" }) <= 1
          /\ (/\ ~gm_link /\ pc' = "monitor"
              /\ getting_ready_error_count' = getting_ready_error_count)
             => \E i \in 1..Len(screen_calls') :
                   /\ screen_calls'[i].op = "click_icon_with_shift"
                   /\ screen_calls'[i].target = "admit_view.png" ]_vars

\* a guest has counted an alone classification of the active call and the
\* loop goes on with no call made
C33_Witness ==
    /\ gm_link
    /\ pc = "monitor"
    /\ alone_in_the_call_timer = 1
    /\ getting_ready_error_count = 0
    /\ screen_calls = << >>

\* C34: 'meeting_ready' is sent at most once in a session, by the step in
\* which InMeeting classified the active call, and it is the only status
\* sent with a meeting link.
C34_MeetingReadyNotification ==
    /\ [](/\ Cardinality({ i \in 1..Len(notified) :
                             notified[i].status = "meeting_ready" }) <= 1
          /\ \A i \in 1..Len(notified) :
                (notified[i].gm_link # "None")
                   <=> (notified[i].status = "meeting_ready"))
    /\ [][ (/\ Len(notified') > Len(notified)
            /\ notified'[Len(notified')].status = "meeting_ready")
           => (/\ pc = "enter" /\ current_state = "InMeeting"
               /\ pc' = "sub_enter"
               /\ sub_current_state' = "MeetingSubMachineStart") ]_vars

\* a guest session, whose controller has a link from the start, has sent
\* 'connecting_to_the_meeting' without it and 'meeting_ready' with one
C34_Witness ==
    /\ gm_link
    /\ Len(notified) = 2
    /\ notified[1] = [ status |-> "connecting_to_the_meeting",
                       gm_link |-> "None" ]
    /\ notified[2] = [ status |-> "meeting_ready",
                       gm_link |-> "driver.current_url" ]

\* C35: at most one AssistantLive.run task is created in a session.
C35_AssistantStartedOnce == la_tasks <= 1

\* the task was created by one LandingPageState entry and the session has
\* gone through LandingPageState or JoinCurrentMeetingState four times more
C35_Witness ==
    /\ la_tasks = 1
    /\ la_running
    /\ lj_entries >= 5

\* C36: when the in-call monitor ended with an error message recorded, the
\* session's StopState reports status 'error'.
C36_InCallErrorsReported ==
    (pc = "exited" /\ sub_error_msg # "None")
        => (/\ stop_notified
            /\ notified[Len(notified)].status = "error")

\* C37: a session that reaches StopState without having entered the
\* in-call monitor has an error message and reports status 'error'.
C37_NoSilentFailure ==
    (/\ pc = "exited"
     /\ sub_current_state \in { "None", "MeetingSubMachineStart" })
        => (/\ error_msg # "None"
            /\ stop_notified
            /\ notified[Len(notified)].status = "error")

(***************************************************************************)
(* DockerManager (specification SpecDocker)                                *)
(***************************************************************************)
\* no thread is inside a call of the DockerManager
Quiescent ==
    \A t \in LaunchThreads \cup CleanupThreads : threads[t].pc = "idle"

\* the host ports of the containers in active_containers
PortsOfActive ==
    { containers[active_containers[u]].host_port : u \in ActiveUsers }

\* C38: between the calls, occupied_ports is exactly the set of host ports
\* of the containers in active_containers, all within 5900..6000 and no
\* port with two active containers (so a cleaned-up container's port is
\* back in the pool); and the port a failed launch had taken is not
\* occupied when the launch returns.
C38_PortAccounting ==
    /\ [](Quiescent =>
            /\ occupied_ports = PortsOfActive
            /\ occupied_ports \subseteq port_range
            /\ \A u1, u2 \in ActiveUsers :
                  (containers[active_containers[u1]].host_port
                     = containers[active_containers[u2]].host_port)
                  => u1 = u2)
    /\ [][ \A t \in LaunchThreads :
             (/\ threads[t].pc = "launch_run" /\ threads'[t].pc = "idle")
             => threads[t].host_port \notin occupied_ports' ]_vars

\* C39: no two containers that are running at the same time were started
\* with the same ContainerSettings, and the settings that
\* find_unlaunched_container_settings hands to a launch are used by no
\* container in active_containers.
C39_AccountExclusivity ==
    /\ [](\A c1, c2 \in 1..Len(containers) :
            (/\ containers[c1].status = "running"
             /\ containers[c2].status = "running"
             /\ containers[c1].google_email = containers[c2].google_email)
            => c1 = c2)
    /\ [][ \A t \in LaunchThreads :
             (threads[t].pc = "idle" /\ threads'[t].pc = "launch_check_user")
             => \A u \in ActiveUsers :
                   containers[active_containers[u]].google_email
                      # containers_settings[
                           threads'[t].container_settings].google_email ]_vars

\* C40: when cleanup_container_resources(container, user_id) returns, the
\* user has no entry in active_containers and none in
\* log_streaming_threads, and the settings of the account the user's
\* container was started with have is_launched false.
C40_CleanupRestoresSlot ==
    [][ \A t \in CleanupThreads :
          (threads[t].pc = "cleanup_finally"
             /\ threads'[t].pc # "cleanup_finally")
          => LET u == threads[t].user_id
                 email == containers[threads[t].container].google_email
             IN  /\ u \notin { v \in UserIds : active_containers'[v] # 0 }
                 /\ u \notin log_streaming_threads'
                 /\ \A i \in 1..Len(containers_settings') :
                       containers_settings'[i].google_email = email
                          => ~containers_settings'[i].is_launched ]_vars

====
